---------------------------- MODULE Spec2Model ----------------------------
(***************************************************************************)
(* A model of w2496/go-abi-decoder: the decode engine (parseMethod,        *)
(* parseLog, AbiDecoder, Storage), the ABI registry (ParseABI, MergeABIs), *)
(* and the bytecode signature matcher (DetectBytecodes, IsToken, ...).     *)
(*                                                                         *)
(* Conventions.                                                            *)
(*  - A selector / topic is keccak256 of the canonical signature string.   *)
(*    The hash is modelled as an injective symbolic function of the        *)
(*    signature (Keccak4, Keccak32): two entries have the same selector    *)
(*    exactly when they have the same canonical signature.                 *)
(*  - log.Fatal terminates the process (os.Exit(1)): it is modelled by     *)
(*    proc = "exited", after which no operation of the program runs.       *)
(*  - A Go string is a sequence of symbols; the prefix "0x" is the two     *)
(*    symbols "0", "x".                                                    *)
(***************************************************************************)
EXTENDS Integers, Sequences, FiniteSets, TLC

VARIABLES
    proc,        \* "running" | "exited" (log.Fatal reached)
    AbiList,     \* Store.AbiList
    op,          \* the decode operation in progress
    input,       \* its argument: a transaction or a log
    idx,         \* position of the range loop over AbiList (1-based)
    attempt,     \* what the last candidate ABI did with the input
    outcome,     \* value returned to the caller of the operation
    decoder,     \* an AbiDecoder instance: its Abi and Debug fields
    jsonAbis,    \* MergeABIs: its arguments
    mergedABI,   \* MergeABIs: the ABI under construction
    mi,          \* MergeABIs: position of its range loop over jsonAbis
    mpc,         \* MergeABIs: "idle" | "loop" | "done"
    bytecode,    \* DetectBytecodes: the caller's bytecode string
    signatures,  \* DetectBytecodes: the caller's slice of fragments
    passed,      \* DetectBytecodes: the slice as it was when the call was made
    remainingBytecode, \* DetectBytecodes: the working copy
    found,       \* DetectBytecodes: fragments found so far
    di,          \* DetectBytecodes: position of its range loop
    tested,      \* DetectBytecodes: the tests the loop made, in order
    dpc,         \* DetectBytecodes: "ready" | "sort" | "loop" | "done"
    result,      \* DetectBytecodes: the value returned, once dpc = "done"
    code,        \* classifier: the bytecode handed to it
    verdict,     \* classifier: the function called and what it returned
    unpacked,    \* formatParameters: the map it was handed, as it was then
    normalized,  \* formatParameters: the map it returned
    fpc,         \* formatParameters: "idle" | "done"
    data,        \* TknStore.data: address -> *ITknInfo, Nil where absent
    infos,       \* the ITknInfo values allocated so far, by reference
    client,      \* TknStore.client is set
    queries,     \* resolutions made through the chain client so far
    asked,       \* GetTknInfo, per caller: the address it was called with
    got,         \* GetTknInfo, per caller: the reference it returned
    cpc,         \* GetTknInfo, per caller: "ready" | "resolving" | "returned" | "panicked"
    made,        \* GetDecoder: what the last call returned
    StoreIndexed, \* Store.Indexed: address string -> *AbiStorage, Nil where absent
    icall,       \* the last call made on Store.Indexed, with its arguments
    Ctx,         \* the global Ctx (ctxType)
    xcall,       \* the last call made on Ctx, with its argument and where it stands
    bcall        \* the last balance or decimals query: the chain's answer and the result

decodeVars == <<AbiList, decoder, op, input, idx, attempt, outcome>>

mergeVars == <<jsonAbis, mergedABI, mi, mpc>>

detectVars == <<bytecode, signatures, passed, remainingBytecode, found, di, tested, dpc, result>>

tokenVars == <<code, verdict>>

formatVars == <<unpacked, normalized, fpc>>

cacheVars == <<data, infos, client, queries, asked, got, cpc, made>>

indexVars == <<StoreIndexed, icall>>

ctxVars == <<Ctx, xcall>>

balanceVars == <<bcall>>

vars == <<proc, decodeVars, mergeVars, detectVars, tokenVars, formatVars, cacheVars, indexVars, ctxVars, balanceVars>>

\* What the operations of one component leave alone.
decodeFrame == <<mergeVars, detectVars, tokenVars, formatVars, cacheVars, indexVars, ctxVars, balanceVars>>

mergeFrame == <<decodeVars, detectVars, tokenVars, formatVars, cacheVars, indexVars, ctxVars, balanceVars>>

detectFrame == <<proc, decodeVars, mergeVars, tokenVars, formatVars, cacheVars, indexVars, ctxVars, balanceVars>>

tokenFrame == <<proc, decodeVars, mergeVars, detectVars, formatVars, cacheVars, indexVars, ctxVars, balanceVars>>

formatFrame == <<decodeVars, mergeVars, detectVars, tokenVars, cacheVars, indexVars, ctxVars, balanceVars>>

cacheFrame == <<decodeVars, mergeVars, detectVars, tokenVars, formatVars, indexVars, ctxVars, balanceVars>>

indexFrame == <<proc, decodeVars, mergeVars, detectVars, tokenVars, formatVars, cacheVars, ctxVars, balanceVars>>

ctxFrame == <<decodeVars, mergeVars, detectVars, tokenVars, formatVars, cacheVars, indexVars, balanceVars>>

balanceFrame == <<decodeVars, mergeVars, detectVars, tokenVars, formatVars, cacheVars, indexVars, ctxVars>>

-----------------------------------------------------------------------------
(* Bounds of the model *)

MaxAbis == 2      \* ABIs appended to Store.AbiList
MaxWords == 2     \* 32-byte words of a payload
MaxTopics == 2    \* topics of a log after topic0
MaxMerge == 3     \* documents handed to one MergeABIs call
MaxCode == 4      \* characters of a bytecode string
MaxFrags == 2     \* fragments handed to one DetectBytecodes call
MaxFill == 1      \* words of other code in front of a classified bytecode
MaxTkns == 2        \* contract addresses the token store is asked about
MaxInfos == 2       \* ITknInfo values allocated in one run
MaxCallers == 2     \* goroutines calling the token store
MaxClients == 2     \* chain nodes a client can be connected to
MaxLimbs == 5     \* 16-bit words of the magnitude of a *big.Int
MaxElems == 2     \* elements of a decoded array
AddrChars == 2    \* hex digits of an address

(* Program constants *)

MinDataLen == 10  \* parseMethod: len(string(tx.Data())) < 10
SelectorBytes == 4 \* sigHash := txData[2:10], four bytes
WordBytes == 32   \* size of one ABI-encoded static argument

-----------------------------------------------------------------------------
(* Generic helpers *)

Range(s) == {s[i] : i \in 1..Len(s)}

SeqsUpTo(S, n) == UNION {[1..k -> S] : k \in 0..n}

Min(S) == CHOOSE x \in S : \A y \in S : x <= y

-----------------------------------------------------------------------------
(* The ABI data model: go-ethereum's abi.ABI, abi.Method, abi.Event,       *)
(* abi.Argument, reduced to the fields the decoder reads.                  *)

Keccak4(sig) == <<"keccak4", sig>>

Keccak32(sig) == <<"keccak32", sig>>

Arg(name, type, indexed) == [Name |-> name, Type |-> type, Indexed |-> indexed]

\* abi.NewMethod: Name is the key in ABI.Methods (RawName, or RawName with an
\* overload suffix), Sig the canonical signature, ID the selector.
NewMethod(name, sig, inputs) ==
    [Name |-> name, Sig |-> sig, ID |-> Keccak4(sig), Inputs |-> inputs]

\* abi.NewEvent
NewEvent(name, sig, inputs) ==
    [Name |-> name, Sig |-> sig, ID |-> Keccak32(sig), Inputs |-> inputs]

\* A table keyed by entry name, as map[string]abi.Method / map[string]abi.Event.
Table(S) == [n \in {e.Name : e \in S} |-> CHOOSE e \in S : e.Name = n]

NewABI(methods, events) == [Methods |-> Table(methods), Events |-> Table(events)]

EmptyABI == NewABI({}, {})

Entries(table) == {table[n] : n \in DOMAIN table}

\* The ABI documents the model draws from (the analogue of ALL_DEFAULT_ABIS and
\* of user supplied JSON).
Erc20Transfer ==
    NewEvent("Transfer", "Transfer(address,address,uint256)",
             <<Arg("from", "address", TRUE), Arg("to", "address", TRUE),
               Arg("value", "uint256", FALSE)>>)

Erc721Transfer ==
    NewEvent("Transfer", "Transfer(address,address,uint256)",
             <<Arg("from", "address", TRUE), Arg("to", "address", TRUE),
               Arg("tokenId", "uint256", TRUE)>>)

DelegateChanged ==
    NewEvent("DelegateChanged", "DelegateChanged(address,address,address)",
             <<Arg("delegator", "address", TRUE), Arg("fromDelegate", "address", TRUE),
               Arg("toDelegate", "address", TRUE)>>)

DelegateVotesChanged ==
    NewEvent("DelegateVotesChanged", "DelegateVotesChanged(address,uint256,uint256)",
             <<Arg("delegate", "address", TRUE), Arg("previousBalance", "uint256", FALSE),
               Arg("newBalance", "uint256", FALSE)>>)

Erc20Abi ==
    NewABI({NewMethod("totalSupply", "totalSupply()", <<>>),
            NewMethod("balanceOf", "balanceOf(address)",
                      <<Arg("account", "address", FALSE)>>),
            NewMethod("transfer", "transfer(address,uint256)",
                      <<Arg("to", "address", FALSE), Arg("value", "uint256", FALSE)>>)},
           {Erc20Transfer})

Erc721Abi ==
    NewABI({NewMethod("balanceOf", "balanceOf(address)",
                      <<Arg("owner", "address", FALSE)>>),
            NewMethod("ownerOf", "ownerOf(uint256)",
                      <<Arg("tokenId", "uint256", FALSE)>>)},
           {Erc721Transfer})

Erc1155Abi ==
    NewABI({NewMethod("balanceOf", "balanceOf(address,uint256)",
                      <<Arg("account", "address", FALSE), Arg("id", "uint256", FALSE)>>)},
           {})

\* A contract with an overloaded balanceOf: abi.JSON keys the second overload
\* as "balanceOf0".
OverloadAbi ==
    NewABI({NewMethod("balanceOf", "balanceOf(address)",
                      <<Arg("holder", "address", FALSE)>>),
            NewMethod("balanceOf0", "balanceOf(address,uint256)",
                      <<Arg("holder", "address", FALSE), Arg("id", "uint256", FALSE)>>)},
           {})

DaoAbi ==
    NewABI({NewMethod("delegate", "delegate(address)",
                      <<Arg("delegatee", "address", FALSE)>>)},
           {DelegateChanged, DelegateVotesChanged})

JsonAbis == {"erc20", "erc721", "erc1155", "overload", "dao"}

MalformedJson == "malformed"

\* abi.JSON: the parsed ABI of a well-formed document.
AbiJSON(json) ==
    CASE json = "erc20" -> Erc20Abi
      [] json = "erc721" -> Erc721Abi
      [] json = "erc1155" -> Erc1155Abi
      [] json = "overload" -> OverloadAbi
      [] json = "dao" -> DaoAbi

AbiPool == {AbiJSON(j) : j \in JsonAbis}

AllMethods == UNION {Entries(a.Methods) : a \in AbiPool}

AllEvents == UNION {Entries(a.Events) : a \in AbiPool}

UnknownSelector == Keccak4("unknown()")

UnknownTopic == Keccak32("Unknown()")


-----------------------------------------------------------------------------
(* Inputs of the decode engine *)

Selectors == {m.ID : m \in AllMethods} \cup {UnknownSelector}

Topics0 == {e.ID : e \in AllEvents} \cup {UnknownTopic}

NoSelector == <<"short">>

\* Byte lengths of call data around every boundary the code tests.
DataLens ==
    (0..MinDataLen)
      \cup {n \in {SelectorBytes + WordBytes * k + d : k \in 0..MaxWords, d \in {-1, 0, 1}} :
                n >= 0}

\* A transaction as parseMethod reads it: the length of tx.Data(), its first
\* four bytes (when it has four) and whether tx.To() is set.
Txs ==
    {[len |-> n, sel |-> s, to |-> t] :
        n \in {l \in DataLens : l >= SelectorBytes}, s \in Selectors, t \in BOOLEAN}
      \cup {[len |-> n, sel |-> NoSelector, to |-> t] :
        n \in {l \in DataLens : l < SelectorBytes}, t \in BOOLEAN}

\* A 32-byte topic after topic0: its first 12 bytes are zero (the shape of a
\* padded address) or not.
TopicWords == {[zero12 |-> TRUE, tail |-> "a1"], [zero12 |-> FALSE, tail |-> "w1"]}

LogDataLens == {0, 1} \cup {WordBytes * k : k \in 1..MaxWords}

\* A log as parseLog reads it: Topics (topic0 first) and len(Data).
Logs ==
    {[topics |-> <<>>, dataLen |-> n] : n \in LogDataLens}
      \cup {[topics |-> <<t0>> \o rest, dataLen |-> n] :
             t0 \in Topics0, rest \in SeqsUpTo(TopicWords, MaxTopics), n \in LogDataLens}

-----------------------------------------------------------------------------
(* Results of one decode attempt *)

Nil == [kind |-> "nil"]

\* log.Fatal: the process exits, nothing is returned.
Fatal(why) == [kind |-> "fatal", why |-> why]

NonIndexed(inputs) == SelectSeq(inputs, LAMBDA a : ~a.Indexed)

\* abi.Arguments.UnpackIntoMap on static arguments: an empty payload is an error
\* when arguments are expected, otherwise every argument needs its 32-byte word;
\* bytes after the last argument are ignored.
ArgumentsUnpackOk(inputs, dataLen) ==
    LET n == Len(NonIndexed(inputs))
    IN  IF dataLen = 0 THEN n = 0 ELSE dataLen >= WordBytes * n

\* The Go value the unpacker produces for a static argument.
GoValue(type, src) ==
    [shape |-> IF type = "address" THEN "common.Address" ELSE "*big.Int", src |-> src]

\* The map filled by Arguments.UnpackIntoMap: one entry per non-indexed argument.
UnpackedMap(inputs) ==
    LET ni == NonIndexed(inputs)
    IN  [n \in {ni[i].Name : i \in 1..Len(ni)} |->
            LET i == CHOOSE j \in 1..Len(ni) : ni[j].Name = n
            IN  GoValue(ni[i].Type, <<"data", i>>)]

\* formatParameters, one value: *big.Int becomes a decimal string, a string
\* that is an address literal is re-rendered with checksum casing; the case
\* *common.Address does not match the common.Address value of the unpacker,
\* which falls to the default branch and stays as it is.
formatValue(v) ==
    CASE v.shape = "*big.Int" -> [v EXCEPT !.shape = "decimal string"]
      [] v.shape = "address string" -> [v EXCEPT !.shape = "checksum string"]
      [] OTHER -> v

\* A normalizer that returns the decoded values as they are.
formatParametersKept(decoded) == decoded

formatParameters(decoded) == [k \in DOMAIN decoded |-> formatValue(decoded[k])]

\* In debug mode formatParameters ends in log.Fatal for the first key it visits.
formatFatal(decoded, debug) == debug /\ DOMAIN decoded # {}

\* abi.ABI.MethodById: the entries of the method table whose ID is the
\* selector (the table is a Go map, ranged over in no fixed order).
MethodById(contractAbi, sigdata) ==
    {m \in Entries(contractAbi.Methods) : m.ID = sigdata}

\* abi.ABI.EventByID
EventByID(contractAbi, topic) ==
    {e \in Entries(contractAbi.Events) : e.ID = topic}

\* parseMethod after the method was resolved.
parseMethodWith(tx, method, debug) ==
    IF ~ArgumentsUnpackOk(method.Inputs, tx.len - SelectorBytes)
    THEN Fatal("unpack")
    ELSE IF ~tx.to /\ debug THEN Fatal("no tx.to")
    ELSE IF formatFatal(UnpackedMap(method.Inputs), debug) THEN Fatal("debug")
    ELSE [kind |-> "method",
          Contract |-> IF tx.to THEN "tx.To" ELSE "EtherAddress",
          SigHash |-> <<"0x", tx.sel>>,
          Signature |-> method.Sig,
          Params |-> formatParameters(UnpackedMap(method.Inputs))]

tooShort(tx) == tx.len < MinDataLen

\* parseMethod: the set of results the call can have.
parseMethod(tx, contractAbi, debug) ==
    IF tooShort(tx) THEN {Nil}
    ELSE IF MethodById(contractAbi, tx.sel) = {} THEN {Nil}
    ELSE {parseMethodWith(tx, m, debug) : m \in MethodById(contractAbi, tx.sel)}


\* A parseLog that tolerates no data-payload unpack failure by name.
skipNone == {}

\* The event names whose data-payload unpack failure parseLog tolerates.
skip == {"Approval", "Transfer", "Deposit"}

\* abi.ABI.UnpackIntoMap / abi.ABI.Unpack by name (getArguments, then the
\* arguments' unpack): a method of that name demands len(data) % 32 = 0, an
\* event of that name supplies its inputs, and a name that is neither is an
\* error. Method outputs are not modelled: a name that is only a method name
\* is taken to have no outputs, which getArguments reports as not located.
AbiUnpackOk(contractAbi, name, dataLen) ==
    /\ name \in DOMAIN contractAbi.Methods => dataLen % WordBytes = 0
    /\ name \in DOMAIN contractAbi.Events
    /\ ArgumentsUnpackOk(contractAbi.Events[name].Inputs, dataLen)

Put(params, key, value) ==
    [k \in DOMAIN params \cup {key} |-> IF k = key THEN value ELSE params[k]]

NoParams == [k \in {} |-> Nil]

\* A loop that never advances idxIndexedTopics: every indexed input reads the
\* same topic.
RECURSIVE indexedLoopSameTopic(_, _, _, _, _, _, _)
indexedLoopSameTopic(contractAbi, topics, inputs, debug, k, i, acc) ==
    IF k > Len(inputs) \/ acc.fatal THEN acc
    ELSE IF ~inputs[k].Indexed
    THEN indexedLoopSameTopic(contractAbi, topics, inputs, debug, k + 1, i, acc)
    ELSE LET next ==
                 IF debug THEN [acc EXCEPT !.fatal = TRUE]
                 ELSE IF topics[i + 1].zero12
                 THEN [acc EXCEPT !.params =
                          Put(@, inputs[k].Name,
                              [shape |-> "address string", src |-> <<"topic", i>>])]
                 ELSE acc
         IN  indexedLoopSameTopic(contractAbi, topics, inputs, debug, k + 1, i, next)

\* A loop whose fallback takes every topic for an address, zero-padded or not.
RECURSIVE indexedLoopAnyTopic(_, _, _, _, _, _, _)
indexedLoopAnyTopic(contractAbi, topics, inputs, debug, k, i, acc) ==
    IF k > Len(inputs) \/ acc.fatal THEN acc
    ELSE IF i >= Len(topics) \/ ~inputs[k].Indexed
    THEN indexedLoopAnyTopic(contractAbi, topics, inputs, debug, k + 1, i, acc)
    ELSE LET next ==
                 IF debug THEN [acc EXCEPT !.fatal = TRUE]
                 ELSE [acc EXCEPT !.params =
                          Put(@, inputs[k].Name,
                              [shape |-> "address string", src |-> <<"topic", i>>])]
         IN  indexedLoopAnyTopic(contractAbi, topics, inputs, debug, k + 1, i + 1, next)

\* The loop of parseLog over event.Inputs. k is the position in event.Inputs,
\* i is idxIndexedTopics (an index into vLog.Topics, topic0 at 0), acc holds
\* the params map and whether log.Fatal was reached.
RECURSIVE indexedLoop(_, _, _, _, _, _, _)
indexedLoop(contractAbi, topics, inputs, debug, k, i, acc) ==
    IF k > Len(inputs) \/ acc.fatal THEN acc
    ELSE IF i >= Len(topics)
    THEN indexedLoop(contractAbi, topics, inputs, debug, k + 1, i, acc)
    ELSE IF ~inputs[k].Indexed
    THEN indexedLoop(contractAbi, topics, inputs, debug, k + 1, i, acc)
    ELSE LET argument == inputs[k]
             topicData == topics[i + 1]
             ok == AbiUnpackOk(contractAbi, argument.Type, WordBytes)
             next ==
                 IF ok
                 THEN [acc EXCEPT !.params =
                          Put(@, argument.Name, [shape |-> "[]interface{}", src |-> <<"topic", i>>])]
                 ELSE IF debug THEN [acc EXCEPT !.fatal = TRUE]
                 ELSE IF topicData.zero12
                 THEN [acc EXCEPT !.params =
                          Put(@, argument.Name, [shape |-> "address string", src |-> <<"topic", i>>])]
                 ELSE acc
         IN  indexedLoop(contractAbi, topics, inputs, debug, k + 1, i + 1, next)

\* parseLog after the event was resolved.
parseLogWith(vLog, contractAbi, event, debug) ==
    LET err == ~AbiUnpackOk(contractAbi, event.Name, vLog.dataLen)
        params0 == IF err THEN NoParams ELSE UnpackedMap(contractAbi.Events[event.Name].Inputs)
        looped ==
            IF Len(vLog.topics) > 1
            THEN indexedLoop(contractAbi, vLog.topics, event.Inputs, debug, 1, 1,
                             [fatal |-> FALSE, params |-> params0])
            ELSE [fatal |-> FALSE, params |-> params0]
    IN  IF err /\ event.Name \notin skip /\ vLog.dataLen # 0 THEN Nil
        ELSE IF err /\ event.Name \in skip /\ debug THEN Fatal("unpack")
        ELSE IF looped.fatal THEN Fatal("indexed")
        ELSE IF formatFatal(looped.params, debug) THEN Fatal("debug")
        ELSE [kind |-> "log",
              Topic |-> <<"0x", vLog.topics[1]>>,
              Signature |-> event.Sig,
              Params |-> formatParameters(looped.params)]

\* parseLog: the set of results the call can have.
parseLog(vLog, contractAbi, debug) ==
    IF Len(vLog.topics) <= 0 THEN {Nil}
    ELSE IF EventByID(contractAbi, vLog.topics[1]) = {} THEN {Nil}
    ELSE {parseLogWith(vLog, contractAbi, e, debug) : e \in EventByID(contractAbi, vLog.topics[1])}


-----------------------------------------------------------------------------
(* The decode operations: AbiDecoder and Storage *)

NoOutcome == [kind |-> "none"]

NoInput == [kind |-> "none"]

NoAttempt == [i |-> 0, res |-> NoOutcome]

NilAbi == [kind |-> "nil"]

NewDecoder == [Abi |-> NilAbi, Debug |-> FALSE]

\* MergeABIs is not running.
MergeInit ==
    /\ jsonAbis = <<>>
    /\ mergedABI = EmptyABI
    /\ mi = 0
    /\ mpc = "idle"

\* No DetectBytecodes call was made: the caller holds an empty bytecode and no
\* fragments.
DetectIdle ==
    /\ bytecode = <<>>
    /\ signatures = <<>>
    /\ passed = <<>>
    /\ remainingBytecode = <<>>
    /\ found = 0
    /\ di = 0
    /\ tested = <<>>
    /\ dpc = "ready"
    /\ result = FALSE

NoVerdict == [fn |-> "none"]

\* The contract addresses of the model.
TknAddresses == 1..MaxTkns

\* The address strings Store.Indexed is keyed by: three spellings, two of
\* them of one address.
IndexedKeys == {<<"0", "x">> \o [i \in 1..AddrChars |-> c] : c \in {"a", "A", "0"}}

\* The goroutines that call the token store.
Callers == 1..MaxCallers

\* The classifier was not called.
TokenIdle ==
    /\ code = <<>>
    /\ verdict = NoVerdict

\* formatParameters was not called on its own.
FormatIdle ==
    /\ unpacked = <<>>
    /\ normalized = <<>>
    /\ fpc = "idle"

\* A nil *ITknInfo; the other references are positions in infos.
NilRef == 0

\* GetDecoder was not called yet.
NoDecoder == [kind |-> "none"]

\* No address: GetTknInfo was not called yet.
NoAddress == 0

\* TknStore as it is constructed: an empty map, no client.
CacheIdle ==
    /\ data = [a \in TknAddresses |-> NilRef]
    /\ infos = <<>>
    /\ client = FALSE
    /\ queries = 0
    /\ asked = [c \in Callers |-> NoAddress]
    /\ got = [c \in Callers |-> NilRef]
    /\ cpc = [c \in Callers |-> "ready"]
    /\ made = NoDecoder

\* No call was made on Store.Indexed.
NoCall == [fn |-> "none"]

\* Store.Indexed as it is constructed: an empty map.
IndexIdle ==
    /\ StoreIndexed = [address \in IndexedKeys |-> Nil]
    /\ icall = NoCall

\* A nil pointer or interface; a pointer that is set is the one-element
\* sequence of what it points to.
NilPtr == <<>>

\* A ctxType with every field at its zero value.
ZeroCtx ==
    [connection |-> NilPtr, initialized |-> FALSE, isLegacy |-> NilPtr, chainId |-> NilPtr,
     signer |-> NilPtr, eth |-> NilPtr]

\* var Ctx = ctxType{initialized: false}; no call was made on it.
CtxIdle ==
    /\ Ctx = ZeroCtx
    /\ xcall = [fn |-> "none", at |-> "done"]

\* No balance or decimals query was made.
BalanceIdle == bcall = NoCall

DecodeInit ==
    /\ AbiList = <<>>
    /\ decoder = NewDecoder
    /\ op = "idle"
    /\ input = NoInput
    /\ idx = 0
    /\ attempt = NoAttempt
    /\ outcome = NoOutcome

Idle == proc = "running" /\ op = "idle"

\* A call that ran to its end in one step: it returned r, or log.Fatal ended
\* the process.
Finish(name, arg, r) ==
    /\ op' = name
    /\ input' = arg
    /\ IF r.kind = "fatal"
       THEN proc' = "exited" /\ outcome' = NoOutcome
       ELSE proc' = proc /\ outcome' = r

\* AbiDecoder.SetABI
SetABI(contractAbi) ==
    /\ Idle
    /\ decoder' = [decoder EXCEPT !.Abi = contractAbi]
    /\ UNCHANGED <<proc, AbiList, op, input, idx, attempt, outcome>>
    /\ UNCHANGED decodeFrame

\* AbiDecoder.FromJSON: abi.JSON, log.Fatal on a document that does not parse.
FromJSON(abis) ==
    /\ Idle
    /\ IF abis = MalformedJson
       THEN proc' = "exited" /\ decoder' = decoder
       ELSE proc' = proc /\ decoder' = [decoder EXCEPT !.Abi = AbiJSON(abis)]
    /\ UNCHANGED <<AbiList, op, input, idx, attempt, outcome>>
    /\ UNCHANGED decodeFrame

\* The exported field AbiDecoder.Debug is set by the caller.
SetDebug(b) ==
    /\ Idle
    /\ decoder.Debug # b
    /\ decoder' = [decoder EXCEPT !.Debug = b]
    /\ UNCHANGED <<proc, AbiList, op, input, idx, attempt, outcome>>
    /\ UNCHANGED decodeFrame

\* AbiDecoder.Reset
Reset ==
    /\ Idle
    /\ decoder # NewDecoder
    /\ decoder' = NewDecoder
    /\ UNCHANGED <<proc, AbiList, op, input, idx, attempt, outcome>>
    /\ UNCHANGED decodeFrame

\* checkAbi: log.Fatal when no ABI is loaded.
checkAbi(d) == d.Abi # NilAbi

\* AbiDecoder.DecodeMethod
DecodeMethod(tx) ==
    /\ Idle
    /\ \E r \in IF checkAbi(decoder) THEN parseMethod(tx, decoder.Abi, decoder.Debug)
                ELSE {Fatal("NO ABI LOADED TO INSTANCE")} :
          Finish("AbiDecoder.DecodeMethod", tx, r)
    /\ UNCHANGED <<AbiList, decoder, idx, attempt>>
    /\ UNCHANGED decodeFrame

\* AbiDecoder.DecodeLog
DecodeLog(vLog) ==
    /\ Idle
    /\ \E r \in IF checkAbi(decoder) THEN parseLog(vLog, decoder.Abi, decoder.Debug)
                ELSE {Fatal("NO ABI LOADED TO INSTANCE")} :
          Finish("AbiDecoder.DecodeLog", vLog, r)
    /\ UNCHANGED <<AbiList, decoder, idx, attempt>>
    /\ UNCHANGED decodeFrame

\* The caller takes the returned value; the next operation may start.
Return ==
    /\ proc = "running"
    /\ op # "idle"
    /\ outcome # NoOutcome
    /\ op' = "idle"
    /\ input' = NoInput
    /\ idx' = 0
    /\ attempt' = NoAttempt
    /\ outcome' = NoOutcome
    /\ UNCHANGED <<proc, AbiList, decoder>>
    /\ UNCHANGED decodeFrame

\* ParseABI: abi.JSON, log.Fatal on a document that does not parse.
ParseABI(json) == IF json = MalformedJson THEN Fatal("abi.JSON") ELSE AbiJSON(json)

\* Storage.ParseAndAddABIs, for one document: the parsed ABI is appended.
ParseAndAddABIs(json) ==
    /\ Idle
    /\ Len(AbiList) < MaxAbis
    /\ IF ParseABI(json) = Fatal("abi.JSON")
       THEN proc' = "exited" /\ AbiList' = AbiList
       ELSE proc' = proc /\ AbiList' = Append(AbiList, ParseABI(json))
    /\ UNCHANGED <<decoder, op, input, idx, attempt, outcome>>
    /\ UNCHANGED decodeFrame

\* Storage.DecodeMethod / Storage.DecodeLog are entered: the range loop over
\* AbiList starts at its first element.
StorageCall(name, arg) ==
    /\ Idle
    /\ op' = name
    /\ input' = arg
    /\ idx' = 1
    /\ attempt' = NoAttempt
    /\ outcome' = NoOutcome
    /\ UNCHANGED <<proc, AbiList, decoder>>
    /\ UNCHANGED decodeFrame

\* What one candidate ABI makes of the input: AbiDecoder{Abi: &contractAbi}
\* (Debug nil) and its DecodeMethod / DecodeLog.
Candidate(name, arg, contractAbi) ==
    IF name = "Storage.DecodeMethod"
    THEN parseMethod(arg, contractAbi, FALSE)
    ELSE parseLog(arg, contractAbi, FALSE)

\* A loop that returns whatever its first candidate produced.
AcceptedUnchecked(name, r) == TRUE

\* Whether the loop returns the candidate's result.
Accepted(name, r) ==
    IF name = "Storage.DecodeMethod"
    THEN r # Nil
    ELSE r # Nil /\ r.Signature # ""

\* One iteration of the range loop of Storage.DecodeMethod / Storage.DecodeLog.
StorageIter ==
    /\ proc = "running"
    /\ op \in {"Storage.DecodeMethod", "Storage.DecodeLog"}
    /\ outcome = NoOutcome
    /\ idx <= Len(AbiList)
    /\ \E r \in Candidate(op, input, AbiList[idx]) :
          /\ attempt' = [i |-> idx, res |-> r]
          /\ IF r.kind = "fatal"
             THEN proc' = "exited" /\ idx' = idx /\ outcome' = outcome
             ELSE IF Accepted(op, r)
             THEN proc' = proc /\ idx' = idx /\ outcome' = r
             ELSE proc' = proc /\ idx' = idx + 1 /\ outcome' = outcome
    /\ UNCHANGED <<AbiList, decoder, op, input>>
    /\ UNCHANGED decodeFrame

\* The loop ran off the end of AbiList: return nil.
StorageEnd ==
    /\ proc = "running"
    /\ op \in {"Storage.DecodeMethod", "Storage.DecodeLog"}
    /\ outcome = NoOutcome
    /\ idx > Len(AbiList)
    /\ outcome' = Nil
    /\ UNCHANGED <<proc, AbiList, decoder, op, input, idx, attempt>>
    /\ UNCHANGED decodeFrame

\* The AbiDecoder on its own.
DecoderNext ==
    \/ \E a \in AbiPool : SetABI(a)
    \/ \E j \in JsonAbis \cup {MalformedJson} : FromJSON(j)
    \/ \E b \in BOOLEAN : SetDebug(b)
    \/ Reset
    \/ \E tx \in Txs : DecodeMethod(tx)
    \/ \E vLog \in Logs : DecodeLog(vLog)
    \/ Return

DecoderInit == proc = "running" /\ DecodeInit /\ MergeInit /\ DetectIdle /\ TokenIdle /\ FormatIdle /\ CacheIdle /\ IndexIdle /\ CtxIdle /\ BalanceIdle

SpecDecoder == DecoderInit /\ [][DecoderNext]_vars

\* The global Store and its search over AbiList.
StoreNext ==
    \/ \E j \in JsonAbis \cup {MalformedJson} : ParseAndAddABIs(j)
    \/ \E tx \in Txs : StorageCall("Storage.DecodeMethod", tx)
    \/ \E vLog \in Logs : StorageCall("Storage.DecodeLog", vLog)
    \/ StorageIter
    \/ StorageEnd
    \/ Return

StoreInit == proc = "running" /\ DecodeInit /\ MergeInit /\ DetectIdle /\ TokenIdle /\ FormatIdle /\ CacheIdle /\ IndexIdle /\ CtxIdle /\ BalanceIdle

SpecStore == StoreInit /\ [][StoreNext]_vars


-----------------------------------------------------------------------------
(* Claims about the decode engine *)

\* An AbiDecoder with an ABI loaded was asked to decode the call data `input`.
MethodDecodeAsked == op = "AbiDecoder.DecodeMethod" /\ checkAbi(decoder)

\* The first four bytes of the call data are the selector of a method of the ABI.
SelectorDefined(contractAbi, tx) ==
    tx.len >= SelectorBytes /\ MethodById(contractAbi, tx.sel) # {}

\* C1: parseMethod returns no result exactly when the call data is shorter
\* than the 4-byte selector or its selector is not defined by the ABI; call
\* data of four or more bytes with a defined selector is never NoMatch.
C1_NoMatchExactlyWhenSelectorUnknown ==
    MethodDecodeAsked =>
        ((outcome = Nil) <=> ~SelectorDefined(decoder.Abi, input))

\* The payload carries exactly the words of the method's arguments.
WellFormedFor(tx, method) ==
    tx.len = SelectorBytes + WordBytes * Len(NonIndexed(method.Inputs))

\* C2: for every ABI and every selector it defines, call data made of that
\* selector and a well-formed payload (empty for a method without arguments)
\* decodes to a DecodedMethod whose Signature is the method's canonical
\* signature (production mode, Debug off).
C2_DefinedSelectorDecodesToItsSignature ==
    (MethodDecodeAsked /\ ~decoder.Debug /\ input.len >= SelectorBytes) =>
        \A m \in MethodById(decoder.Abi, input.sel) :
            WellFormedFor(input, m) =>
                outcome.kind = "method" /\ outcome.Signature = m.Sig

\* The candidate ABI resolved the selector of the call data and the payload
\* does not unpack against the method's inputs.
UnpackFails(tx, contractAbi) ==
    /\ ~tooShort(tx)
    /\ \E m \in MethodById(contractAbi, tx.sel) :
          ~ArgumentsUnpackOk(m.Inputs, tx.len - SelectorBytes)

\* C3: in Storage.DecodeMethod a candidate whose selector matches but whose
\* arguments do not unpack yields an outcome other than NoMatch, aborts only
\* that candidate (the process keeps running) and the loop moves on to the
\* next ABI of AbiList.
C3_UnpackFailureAbortsOnlyTheCandidate ==
    (op = "Storage.DecodeMethod" /\ attempt.i > 0
        /\ UnpackFails(input, AbiList[attempt.i])) =>
            /\ proc = "running"
            /\ attempt.res # Nil
            /\ idx = attempt.i + 1

\* The candidate ABI yields a decoded result for the input.
Decodes(name, arg, contractAbi) ==
    \E r \in Candidate(name, arg, contractAbi) : r.kind \in {"method", "log"}

Decoding(name, arg, list) == {i \in 1..Len(list) : Decodes(name, arg, list[i])}

StorageOp == op \in {"Storage.DecodeMethod", "Storage.DecodeLog"}

-----------------------------------------------------------------------------
(* The ABI registry: MergeABIs *)

\* A merge that keeps the entry it already holds under a name.
OverlayKeepFirst(old, new) ==
    [n \in DOMAIN old \cup DOMAIN new |-> IF n \in DOMAIN old THEN old[n] ELSE new[n]]

\* for name, method := range contractAbi.Methods { mergedABI.Methods[name] = method }
Overlay(old, new) ==
    [n \in DOMAIN old \cup DOMAIN new |-> IF n \in DOMAIN new THEN new[n] ELSE old[n]]

\* A merge that forgets the names of the other documents.
MergeOneReplacing(merged, contractAbi) == contractAbi

\* One iteration of the loop of MergeABIs, for a document that parsed.
MergeOne(merged, contractAbi) ==
    [Methods |-> Overlay(merged.Methods, contractAbi.Methods),
     Events |-> Overlay(merged.Events, contractAbi.Events)]

\* MergeABIs is called with the documents `abis`.
MergeCall(abis) ==
    /\ proc = "running"
    /\ mpc = "idle"
    /\ jsonAbis' = abis
    /\ mergedABI' = EmptyABI
    /\ mi' = 1
    /\ mpc' = "loop"
    /\ UNCHANGED proc
    /\ UNCHANGED mergeFrame

\* One iteration: abi.JSON, log.Fatal on a document that does not parse, else
\* the document's methods and events are written over the merged tables.
MergeIter ==
    /\ proc = "running"
    /\ mpc = "loop"
    /\ mi <= Len(jsonAbis)
    /\ IF jsonAbis[mi] = MalformedJson
       THEN proc' = "exited" /\ UNCHANGED <<mergedABI, mi>>
       ELSE /\ proc' = proc
            /\ mergedABI' = MergeOne(mergedABI, AbiJSON(jsonAbis[mi]))
            /\ mi' = mi + 1
    /\ UNCHANGED <<jsonAbis, mpc>>
    /\ UNCHANGED mergeFrame

\* return mergedABI
MergeReturn ==
    /\ proc = "running"
    /\ mpc = "loop"
    /\ mi > Len(jsonAbis)
    /\ mpc' = "done"
    /\ UNCHANGED <<proc, jsonAbis, mergedABI, mi>>
    /\ UNCHANGED mergeFrame

\* The caller holds the merged ABI; MergeABIs may be called again.
MergeAgain ==
    /\ proc = "running"
    /\ mpc = "done"
    /\ jsonAbis' = <<>>
    /\ mergedABI' = EmptyABI
    /\ mi' = 0
    /\ mpc' = "idle"
    /\ UNCHANGED proc
    /\ UNCHANGED mergeFrame

MergeNext ==
    \/ \E abis \in SeqsUpTo(JsonAbis \cup {MalformedJson}, MaxMerge) : MergeCall(abis)
    \/ MergeIter
    \/ MergeReturn
    \/ MergeAgain

MergeSpecInit == proc = "running" /\ DecodeInit /\ MergeInit /\ DetectIdle /\ TokenIdle /\ FormatIdle /\ CacheIdle /\ IndexIdle /\ CtxIdle /\ BalanceIdle

SpecMerge == MergeSpecInit /\ [][MergeNext]_vars

-----------------------------------------------------------------------------
(* Claims about MergeABIs *)

\* The parsed inputs of the finished call.
Inputs == [i \in 1..Len(jsonAbis) |-> AbiJSON(jsonAbis[i])]

Merged == mpc = "done"

\* The inputs that declare a method (an event) under the name n.
DeclaringMethod(n) == {i \in 1..Len(jsonAbis) : n \in DOMAIN Inputs[i].Methods}

DeclaringEvent(n) == {e \in 1..Len(jsonAbis) : n \in DOMAIN Inputs[e].Events}

Max(S) == CHOOSE x \in S : \A y \in S : x >= y

\* Under every colliding name the merged ABI holds the entry of the last
\* input that declares the name.
LaterEntryWins ==
    /\ \A n \in DOMAIN mergedABI.Methods :
          /\ DeclaringMethod(n) # {}
          /\ mergedABI.Methods[n] = Inputs[Max(DeclaringMethod(n))].Methods[n]
    /\ \A n \in DOMAIN mergedABI.Events :
          /\ DeclaringEvent(n) # {}
          /\ mergedABI.Events[n] = Inputs[Max(DeclaringEvent(n))].Events[n]
    /\ \A i \in 1..Len(jsonAbis) :
          /\ DOMAIN Inputs[i].Methods \subseteq DOMAIN mergedABI.Methods
          /\ DOMAIN Inputs[i].Events \subseteq DOMAIN mergedABI.Events

\* The (input, name) pairs whose method entry was overwritten by an entry with
\* another selector.
OverwrittenMethods ==
    {<<i, n>> \in (1..Len(jsonAbis)) \X DOMAIN mergedABI.Methods :
        /\ n \in DOMAIN Inputs[i].Methods
        /\ i < Max(DeclaringMethod(n))
        /\ Inputs[i].Methods[n].ID # mergedABI.Methods[n].ID}

OverwrittenEvents ==
    {<<i, n>> \in (1..Len(jsonAbis)) \X DOMAIN mergedABI.Events :
        /\ n \in DOMAIN Inputs[i].Events
        /\ i < Max(DeclaringEvent(n))
        /\ Inputs[i].Events[n].ID # mergedABI.Events[n].ID}

\* C5, as claimed: on a name collision the merged ABI holds only the later
\* input's entry under that name, and when the selectors (topics) differ the
\* earlier entry's selector (topic) is not resolvable in the merged ABI.
C5_OverwrittenSelectorNotResolvable ==
    Merged =>
        /\ LaterEntryWins
        /\ \A p \in OverwrittenMethods :
              MethodById(mergedABI, Inputs[p[1]].Methods[p[2]].ID) = {}
        /\ \A p \in OverwrittenEvents :
              EventByID(mergedABI, Inputs[p[1]].Events[p[2]].ID) = {}

\* C5, amended: on a name collision the merged ABI holds only the entry of the
\* last input declaring that name; the overwritten entry's selector (topic)
\* resolves in the merged ABI to no entry of that name, and resolves at all
\* only when an entry kept under another name has the same selector (topic).
C5_LaterEntryOverwrites ==
    Merged =>
        /\ LaterEntryWins
        /\ \A p \in OverwrittenMethods :
              \A m \in MethodById(mergedABI, Inputs[p[1]].Methods[p[2]].ID) :
                  m.Name # p[2] /\ mergedABI.Methods[m.Name] = m
        /\ \A p \in OverwrittenEvents :
              \A e \in EventByID(mergedABI, Inputs[p[1]].Events[p[2]].ID) :
                  e.Name # p[2] /\ mergedABI.Events[e.Name] = e

\* Two inputs declare balanceOf with different selectors, and the earlier
\* one's selector is gone from the merged ABI.
C5_Witness ==
    /\ Merged
    /\ \E p \in OverwrittenMethods :
          MethodById(mergedABI, Inputs[p[1]].Methods[p[2]].ID) = {}

\* No two inputs declare a method under the same name.
DisjointMethodNames ==
    \A i, j \in 1..Len(jsonAbis) :
        i # j => DOMAIN Inputs[i].Methods \cap DOMAIN Inputs[j].Methods = {}

\* C6: when the inputs of MergeABIs have disjoint method names, every selector
\* an input defines resolves in the merged ABI to the method it resolves to in
\* that input, and the merged method table is the union of the inputs' tables.
C6_DisjointMergeKeepsEverySelector ==
    (Merged /\ DisjointMethodNames) =>
        /\ Entries(mergedABI.Methods) =
              UNION {Entries(Inputs[i].Methods) : i \in 1..Len(jsonAbis)}
        /\ \A i \in 1..Len(jsonAbis) :
              \A m \in Entries(Inputs[i].Methods) :
                  /\ MethodById(mergedABI, m.ID) = MethodById(Inputs[i], m.ID)
                  /\ MethodById(mergedABI, m.ID) # {}

\* Two ABIs with methods of their own were merged.
C6_Witness ==
    /\ Merged
    /\ DisjointMethodNames
    /\ Len(jsonAbis) = 2
    /\ \A i \in 1..2 : DOMAIN Inputs[i].Methods # {}


-----------------------------------------------------------------------------
(* Bytecode fragment matching: DetectBytecodes                             *)
(* A string is the sequence of its characters.                             *)

HexDigits == {"a", "b"}

Prefix0x == <<"0", "x">>

\* Hex digits of a fragment, without its optional 0x prefix.
FragmentLens == 1..2

Bytecodes == SeqsUpTo(HexDigits, MaxCode)

Fragments ==
    LET digits == {d \in SeqsUpTo(HexDigits, 2) : Len(d) \in FragmentLens}
    IN  digits \cup {Prefix0x \o d : d \in digits}

\* strings.TrimPrefix
TrimPrefix(s, prefix) ==
    IF Len(s) >= Len(prefix) /\ SubSeq(s, 1, Len(prefix)) = prefix
    THEN SubSeq(s, Len(prefix) + 1, Len(s))
    ELSE s

\* The positions at which substr starts in s.
Occurrences(s, substr) ==
    {i \in 1..(Len(s) - Len(substr) + 1) : SubSeq(s, i, i + Len(substr) - 1) = substr}

\* strings.Contains
Contains(s, substr) == Occurrences(s, substr) # {}

\* strings.Index (1-based)
Index(s, substr) == Min(Occurrences(s, substr))

\* s without the characters of the occurrence of substr that starts at i.
Cut(s, i, substr) == SubSeq(s, 1, i - 1) \o SubSeq(s, i + Len(substr), Len(s))

RECURSIVE ReplaceAll(_, _)
\* strings.Replace(s, old, "", -1)
ReplaceAll(s, old) ==
    IF ~Contains(s, old) \/ old = <<>>
    THEN s
    ELSE LET i == Index(s, old)
         IN  SubSeq(s, 1, i - 1) \o ReplaceAll(SubSeq(s, i + Len(old), Len(s)), old)

\* strings.Replace(s, old, "", 1)
ReplaceFirst(s, old) ==
    IF Contains(s, old) THEN Cut(s, Index(s, old), old) ELSE s

\* sort.Slice by len: the orders the slice can be left in. The sort is not
\* stable, so fragments of equal length end in any order.
SortedOrders(sigs) ==
    LET n == Len(sigs)
        perms == {f \in [1..n -> 1..n] : \A i, j \in 1..n : i # j => f[i] # f[j]}
    IN  {[i \in 1..n |-> sigs[f[i]]] : f \in
            {g \in perms : \A i, j \in 1..n :
                i < j => ~(Len(sigs[g[j]]) < Len(sigs[g[i]]))}}

\* The positions in I of the shortest fragments among sigs[i], i \in I: the
\* ones a sort by length can put first.
Shortest(sigs, I) == {i \in I : \A j \in I : ~(Len(sigs[j]) < Len(sigs[i]))}

RECURSIVE allFound(_, _, _)
\* The range loop of DetectBytecodes over the fragments still to test, I, in
\* every order the sort can have left them in: whether found is raised once
\* for each of them, each found fragment being removed once. A fragment that
\* is not found leaves found below len(signatures) whatever follows.
allFound(remaining, sigs, I) ==
    IF I = {}
    THEN {TRUE}
    ELSE UNION {LET c == TrimPrefix(sigs[i], Prefix0x)
                IN  IF Contains(remaining, c)
                    THEN allFound(ReplaceFirst(remaining, c), sigs, I \ {i})
                    ELSE {FALSE} : i \in Shortest(sigs, I)}

\* The values DetectBytecodes(b, sigs) can return: len(signatures) == found.
DetectBytecodes(b, sigs) == allFound(b, sigs, 1..Len(sigs))

\* The caller calls DetectBytecodes(b, sigs) with a bytecode and a slice of
\* fragments of its choice: found := 0, remainingBytecode := bytecode.
DetectCall ==
    /\ dpc = "ready"
    /\ \E b \in Bytecodes, sigs \in SeqsUpTo(Fragments, MaxFrags) :
          /\ bytecode' = b
          /\ signatures' = sigs
          /\ passed' = sigs
          /\ remainingBytecode' = b
    /\ found' = 0
    /\ di' = 0
    /\ tested' = <<>>
    /\ result' = FALSE
    /\ dpc' = "sort"
    /\ UNCHANGED detectFrame

\* sort.Slice(signatures, ...): sorts the caller's slice in place.
DetectSort ==
    /\ dpc = "sort"
    /\ signatures' \in SortedOrders(signatures)
    /\ di' = 1
    /\ dpc' = "loop"
    /\ UNCHANGED <<bytecode, passed, remainingBytecode, found, tested, result>>
    /\ UNCHANGED detectFrame

\* One iteration of the range loop over the sorted fragments.
DetectIter ==
    /\ dpc = "loop"
    /\ di <= Len(signatures)
    /\ LET c == TrimPrefix(signatures[di], Prefix0x)
           hit == Contains(remainingBytecode, c)
       IN  /\ remainingBytecode' =
                 IF hit THEN ReplaceFirst(remainingBytecode, c) ELSE remainingBytecode
           /\ found' = IF hit THEN found + 1 ELSE found
           /\ tested' = Append(tested, [raw |-> signatures[di], code |-> c, hit |-> hit,
                                        before |-> remainingBytecode,
                                        after |-> remainingBytecode'])
    /\ di' = di + 1
    /\ UNCHANGED <<bytecode, signatures, passed, dpc, result>>
    /\ UNCHANGED detectFrame

\* return len(signatures) == found
DetectReturn ==
    /\ dpc = "loop"
    /\ di > Len(signatures)
    /\ result' = (Len(signatures) = found)
    /\ dpc' = "done"
    /\ UNCHANGED <<bytecode, signatures, passed, remainingBytecode, found, di, tested>>
    /\ UNCHANGED detectFrame

\* The caller drops the bytecode and the slice.
DetectRelease ==
    /\ dpc = "done"
    /\ bytecode' = <<>>
    /\ signatures' = <<>>
    /\ passed' = <<>>
    /\ remainingBytecode' = <<>>
    /\ found' = 0
    /\ di' = 0
    /\ tested' = <<>>
    /\ result' = FALSE
    /\ dpc' = "ready"
    /\ UNCHANGED detectFrame

DetectNext ==
    \/ DetectCall
    \/ DetectSort
    \/ DetectIter
    \/ DetectReturn
    \/ DetectRelease

DetectInit == proc = "running" /\ DecodeInit /\ MergeInit /\ DetectIdle /\ TokenIdle /\ FormatIdle /\ CacheIdle /\ IndexIdle /\ CtxIdle /\ BalanceIdle

SpecDetect == DetectInit /\ [][DetectNext]_vars


-----------------------------------------------------------------------------
(* Claims about DetectBytecodes *)

Detected == dpc = "done"

\* How many entries of the list l equal x.
CountIn(l, x) == Cardinality({i \in 1..Len(l) : l[i] = x})

\* The fragments of the call as the loop matches them, in the caller's order.
Required == [i \in 1..Len(passed) |-> TrimPrefix(passed[i], Prefix0x)]

\* The step-wise loop returns one of the values of the operator.
DetectAgreesWithOperator ==
    Detected => result \in DetectBytecodes(bytecode, passed)

\* C7: DetectBytecodes tests the fragments in ascending order of length; each
\* time a fragment is found in the working copy exactly one occurrence of it
\* is removed before the next fragment is tested; the result is true exactly
\* when every fragment of the list was found at its turn.
C7_AscendingTestsRemoveOneOccurrence ==
    Detected =>
        /\ Len(tested) = Len(passed)
        /\ \A f \in Range(passed) :
              CountIn([i \in 1..Len(tested) |-> tested[i].raw], f) = CountIn(passed, f)
        /\ \A i, j \in 1..Len(tested) :
              i < j => Len(tested[i].raw) <= Len(tested[j].raw)
        /\ \A i \in 1..Len(tested) :
              LET t == tested[i]
              IN  /\ t.code = TrimPrefix(t.raw, Prefix0x)
                  /\ t.before = IF i = 1 THEN bytecode ELSE tested[i - 1].after
                  /\ t.hit = Contains(t.before, t.code)
                  /\ t.hit => /\ \E k \in Occurrences(t.before, t.code) :
                                    t.after = Cut(t.before, k, t.code)
                              /\ Len(t.after) = Len(t.before) - Len(t.code)
                  /\ ~t.hit => t.after = t.before
        /\ result = (\A i \in 1..Len(tested) : tested[i].hit)
        /\ result = (found = Len(passed))

\* A call returned true after a fragment was removed from a working copy that
\* held it twice, and a longer fragment was tested after it.
C7_Witness ==
    /\ Detected
    /\ result
    /\ Len(tested) = 2
    /\ Len(tested[1].raw) < Len(tested[2].raw)
    /\ Cardinality(Occurrences(tested[1].before, tested[1].code)) >= 2
    /\ Contains(tested[1].after, tested[1].code)

\* The ways to give every required fragment an occurrence of its own in the
\* original bytecode, no two of them overlapping.
Assignments ==
    {pos \in [1..Len(Required) -> 1..(Len(bytecode) + 1)] :
        /\ \A i \in 1..Len(Required) : pos[i] \in Occurrences(bytecode, Required[i])
        /\ \A i, j \in 1..Len(Required) :
              i < j => \/ pos[i] + Len(Required[i]) <= pos[j]
                       \/ pos[j] + Len(Required[j]) <= pos[i]}

\* C8: DetectBytecodes returns true iff every fragment appears in the bytecode
\* at least as many times as the list requires it, each required occurrence
\* taking an occurrence of its own, and false whenever a fragment of the list
\* is not a substring of the original bytecode.
C8_TrueIffEveryFragmentOftenEnough ==
    Detected =>
        /\ result = (Assignments # {})
        /\ (\E c \in Range(Required) : ~Contains(bytecode, c)) => ~result

\* C9: whenever DetectBytecodes returns true, the required fragments can be
\* assigned to pairwise non-overlapping occurrences in the original bytecode.
C9_TrueOnlyWithDisjointOccurrences ==
    (Detected /\ result) => Assignments # {}


-----------------------------------------------------------------------------
(* Token-standard classification: IsToken, IsERC1155, IsERC721, IsERC20,   *)
(* DetectTokenStandard.                                                    *)
(* Contract bytecode is written in words of eight hex digits, one          *)
(* character of the model each; a selector is one word, the Transfer       *)
(* topic eight, so the order of the lengths is that of the hex strings.    *)

\* TransferTopic = "0xddf252ad1be2c89b69c2b068fc378daa952ba7f163c4a11628f55a4df523b3ef"
TransferTopic ==
    Prefix0x \o <<"ddf252ad", "1be2c89b", "69c2b068", "fc378daa",
                  "952ba7f1", "63c4a116", "28f55a4d", "f523b3ef">>

\* TransferTopic[2:]
TransferTopicHex == SubSeq(TransferTopic, 3, Len(TransferTopic))

BalanceOfId == <<"00ebf37d">>             \* balanceOf(address,uint256)

BalanceOfBatch == <<"4e1273f4">>          \* balanceOfBatch(address[],uint256[])

SetApprovalForAll == <<"a22cb465">>       \* setApprovalForAll(address,bool)

IsApprovedForAll == <<"e985e9c5">>        \* isApprovedForAll(address,address)

SafeTransferFrom == <<"f242432a">>        \* safeTransferFrom(address,address,uint256,uint256,bytes)

SafeBatchTransferFrom == <<"bc197c81">>   \* safeBatchTransferFrom(address,address,uint256[],uint256[],bytes)

OwnerOf == <<"6352211e">>                 \* the fragment IsERC721 and IsERC20 look for

\* The first word of compiled contract code, which no classifier looks for.
FillWord == "60806040"

\* The pieces a classified bytecode is put together from, in the order in
\* which they follow each other in it.
Pieces ==
    <<TransferTopicHex, BalanceOfId, BalanceOfBatch, SetApprovalForAll,
      IsApprovedForAll, SafeTransferFrom, SafeBatchTransferFrom, OwnerOf>>

RECURSIVE Concat(_)
Concat(ss) == IF ss = <<>> THEN <<>> ELSE Head(ss) \o Concat(Tail(ss))

\* The bytecode holding the pieces numbered in S after k words of other code.
CodeOf(k, S) ==
    [i \in 1..k |-> FillWord] \o
    Concat([i \in 1..Len(Pieces) |-> IF i \in S THEN Pieces[i] ELSE <<>>])

TokenCodes == {CodeOf(k, S) : k \in 0..MaxFill, S \in SUBSET (1..Len(Pieces))}

\* func IsToken(bytecode string) bool
IsToken(b) ==
    DetectBytecodes(TransferTopicHex, <<TransferTopicHex, BalanceOfId, SafeTransferFrom>>)

\* func IsERC1155(bytecode string) bool
IsERC1155(b) ==
    DetectBytecodes(b, <<TransferTopicHex, BalanceOfId, BalanceOfBatch, SetApprovalForAll,
                         IsApprovedForAll, SafeTransferFrom, SafeBatchTransferFrom>>)

\* func IsERC721(bytecode string) bool
IsERC721(b) == {t /\ Contains(b, OwnerOf) : t \in IsToken(b)}

\* func IsERC20(bytecode string) bool
IsERC20(b) == {t /\ Contains(b, OwnerOf) : t \in IsToken(b)}

\* func DetectTokenStandard(bytecode string) string
DetectTokenStandard(b) ==
    LET erc721 == IsERC721(b)
        erc20 == IsERC20(b)
        erc1155 == IsERC1155(b)
    IN  (IF TRUE \in erc721 THEN {"ERC721"} ELSE {}) \cup
        (IF FALSE \in erc721
         THEN (IF TRUE \in erc20 THEN {"ERC20"} ELSE {}) \cup
              (IF FALSE \in erc20
               THEN (IF TRUE \in erc1155 THEN {"ERC1155"} ELSE {}) \cup
                    (IF FALSE \in erc1155 THEN {"UNKNOWN"} ELSE {})
               ELSE {})
         ELSE {})

\* The caller calls IsToken(bytecode) on the bytecode it holds.
IsTokenCall ==
    /\ verdict = NoVerdict
    /\ \E v \in IsToken(code) : verdict' = [fn |-> "IsToken", value |-> v]
    /\ UNCHANGED code
    /\ UNCHANGED tokenFrame

\* The caller calls IsERC1155(bytecode) on the bytecode it holds.
IsERC1155Call ==
    /\ verdict = NoVerdict
    /\ \E v \in IsERC1155(code) : verdict' = [fn |-> "IsERC1155", value |-> v]
    /\ UNCHANGED code
    /\ UNCHANGED tokenFrame

\* The caller calls IsERC721(bytecode) on the bytecode it holds.
IsERC721Call ==
    /\ verdict = NoVerdict
    /\ \E v \in IsERC721(code) : verdict' = [fn |-> "IsERC721", value |-> v]
    /\ UNCHANGED code
    /\ UNCHANGED tokenFrame

\* The caller calls IsERC20(bytecode) on the bytecode it holds.
IsERC20Call ==
    /\ verdict = NoVerdict
    /\ \E v \in IsERC20(code) : verdict' = [fn |-> "IsERC20", value |-> v]
    /\ UNCHANGED code
    /\ UNCHANGED tokenFrame

\* The caller calls DetectTokenStandard(bytecode) on the bytecode it holds.
DetectTokenStandardCall ==
    /\ verdict = NoVerdict
    /\ \E v \in DetectTokenStandard(code) : verdict' = [fn |-> "DetectTokenStandard", value |-> v]
    /\ UNCHANGED code
    /\ UNCHANGED tokenFrame

\* The caller drops the result and keeps the bytecode.
Forget ==
    /\ verdict # NoVerdict
    /\ verdict' = NoVerdict
    /\ UNCHANGED code
    /\ UNCHANGED tokenFrame

TokenNext ==
    \/ IsTokenCall
    \/ IsERC1155Call
    \/ IsERC721Call
    \/ IsERC20Call
    \/ DetectTokenStandardCall
    \/ Forget

\* The caller holds a contract's bytecode and has called no classifier.
TokenInit ==
    /\ proc = "running"
    /\ DecodeInit
    /\ MergeInit
    /\ DetectIdle
    /\ code \in TokenCodes
    /\ verdict = NoVerdict
    /\ FormatIdle
    /\ CacheIdle
    /\ IndexIdle
    /\ CtxIdle
    /\ BalanceIdle

SpecToken == TokenInit /\ [][TokenNext]_vars

-----------------------------------------------------------------------------
(* Claims about the classifiers *)

\* C10: IsToken(bytecode) is true for every bytecode that contains the
\* Transfer-event topic fragment together with the minimal balance-query
\* fragment, and false for bytecode without the Transfer topic.
C10_IsTokenDecidedByTopicAndBalanceQuery ==
    verdict.fn = "IsToken" =>
        /\ (Contains(code, TransferTopicHex) /\ Contains(code, BalanceOfId)) => verdict.value
        /\ ~Contains(code, TransferTopicHex) => ~verdict.value


\* Token bytecode: it holds the Transfer topic and the balance-query fragment.
TokenCode == Contains(code, TransferTopicHex) /\ Contains(code, BalanceOfId)

\* C11: token bytecode without the fragment 6352211e is accepted by IsERC20,
\* rejected by IsERC721 and classified ERC20 by DetectTokenStandard; token
\* bytecode with the fragment 6352211e is classified ERC721.
C11_Erc20AndErc721DecidedByOwnFragments ==
    TokenCode =>
        /\ (verdict.fn = "IsERC20" /\ ~Contains(code, OwnerOf)) => verdict.value
        /\ (verdict.fn = "IsERC721" /\ ~Contains(code, OwnerOf)) => ~verdict.value
        /\ (verdict.fn = "DetectTokenStandard" /\ ~Contains(code, OwnerOf)) =>
              verdict.value = "ERC20"
        /\ (verdict.fn = "DetectTokenStandard" /\ Contains(code, OwnerOf)) =>
              verdict.value = "ERC721"

Standards == {"ERC721", "ERC20", "ERC1155", "UNKNOWN"}

\* C12: DetectTokenStandard returns the first of ERC721, ERC20, ERC1155 whose
\* check the bytecode satisfies and UNKNOWN when it satisfies none, and each
\* of the four results is returned for some bytecode.
C12_FirstSatisfiedStandardWins ==
    /\ verdict.fn = "DetectTokenStandard" =>
          /\ verdict.value \in Standards
          /\ IsERC721(code) = {TRUE} => verdict.value = "ERC721"
          /\ (IsERC721(code) = {FALSE} /\ IsERC20(code) = {TRUE}) =>
                verdict.value = "ERC20"
          /\ (IsERC721(code) = {FALSE} /\ IsERC20(code) = {FALSE}
                /\ IsERC1155(code) = {TRUE}) => verdict.value = "ERC1155"
          /\ (IsERC721(code) = {FALSE} /\ IsERC20(code) = {FALSE}
                /\ IsERC1155(code) = {FALSE}) => verdict.value = "UNKNOWN"
    /\ \A standard \in Standards :
          \E b \in TokenCodes : standard \in DetectTokenStandard(b)

\* The part of C12 that is about the order of the tests alone.
DetectTokenStandardOrder ==
    verdict.fn = "DetectTokenStandard" =>
        /\ verdict.value \in Standards
        /\ IsERC721(code) = {TRUE} => verdict.value = "ERC721"
        /\ (IsERC721(code) = {FALSE} /\ IsERC20(code) = {FALSE}
              /\ IsERC1155(code) = {TRUE}) => verdict.value = "ERC1155"
        /\ (IsERC721(code) = {FALSE} /\ IsERC20(code) = {FALSE}
              /\ IsERC1155(code) = {FALSE}) => verdict.value = "UNKNOWN"


-----------------------------------------------------------------------------
(* Claims about parseLog *)

\* An AbiDecoder with an ABI loaded, Debug off, was asked to decode the log
\* `input` and the call ended.
LogDecoded ==
    /\ op = "AbiDecoder.DecodeLog"
    /\ checkAbi(decoder)
    /\ ~decoder.Debug
    /\ outcome # NoOutcome

\* The events topic0 of the log resolves to.
Resolved == IF Len(input.topics) = 0 THEN {} ELSE EventByID(decoder.Abi, input.topics[1])

Indexed(inputs) == SelectSeq(inputs, LAMBDA a : a.Indexed)

\* C13: the indexed inputs of the resolved event are paired with topics[1..]
\* in declaration order, one topic per indexed input; indexed inputs beyond
\* the topics the log carries are left out of the parameters and the decoded
\* event is still returned (Debug off).
C13_IndexedInputsPairedWithTopics ==
    LogDecoded =>
        \A event \in Resolved :
            LET ix == Indexed(event.Inputs)
                carried == Len(input.topics) - 1
            IN  /\ AbiUnpackOk(decoder.Abi, event.Name, input.dataLen) =>
                      outcome.kind = "log"
                /\ outcome.kind = "log" =>
                      \A j \in 1..Len(ix) :
                          /\ j > carried => ix[j].Name \notin DOMAIN outcome.Params
                          /\ (j <= carried /\ ix[j].Name \in DOMAIN outcome.Params) =>
                                outcome.Params[ix[j].Name].src = <<"topic", j>>
                          /\ (j <= carried /\ input.topics[j + 1].zero12) =>
                                ix[j].Name \in DOMAIN outcome.Params

\* An event with three indexed inputs was decoded from a log with two topics
\* after topic0: two parameters were read, the third was left out.
C13_Witness ==
    /\ LogDecoded
    /\ outcome.kind = "log"
    /\ Len(input.topics) = 3
    /\ \E event \in Resolved :
          /\ Len(Indexed(event.Inputs)) = 3
          /\ Indexed(event.Inputs)[2].Name \in DOMAIN outcome.Params
          /\ Indexed(event.Inputs)[3].Name \notin DOMAIN outcome.Params


\* The type-directed unpack of an indexed topic: contractAbi.Unpack(t, topic)
\* with t the type string of the input and a 32-byte topic.
TopicUnpackFails(argument) == ~AbiUnpackOk(decoder.Abi, argument.Type, WordBytes)

\* The checksum address formed from the last 20 bytes of topic i.
TopicAddress(i) == [shape |-> "checksum string", src |-> <<"topic", i>>]

AllowList == {"Approval", "Transfer", "Deposit"}

\* Storage.DecodeLog tried the ABI AbiList[attempt.i] on the log.
LogAttempted == op = "Storage.DecodeLog" /\ attempt.i > 0 /\ Len(input.topics) > 0

\* The events of the tried ABI that topic0 resolves to and whose non-indexed
\* inputs the data payload does not unpack against.
DataUnpackFailed ==
    {e \in EventByID(AbiList[attempt.i], input.topics[1]) :
        ~AbiUnpackOk(AbiList[attempt.i], e.Name, input.dataLen)}

\* The event is returned with only its indexed parameters populated.
OnlyIndexedPopulated(e) ==
    /\ attempt.res.kind = "log"
    /\ attempt.res.Signature = e.Sig
    /\ DOMAIN attempt.res.Params \subseteq {a.Name : a \in Range(Indexed(e.Inputs))}

\* parseLog returned no result and the loop went on to the next ABI.
NoResultSearchContinues ==
    /\ attempt.res = Nil
    /\ proc = "running"
    /\ idx = attempt.i + 1

\* C15, as claimed: a failure to unpack the data payload is tolerated exactly
\* for the events of the allow-list; for any other event it makes parseLog
\* return no result, whatever the payload, and Storage.DecodeLog continues
\* with the next ABI.
C15_DataFailureToleratedOnlyOnAllowList ==
    LogAttempted =>
        \A e \in DataUnpackFailed :
            IF e.Name \in AllowList
            THEN OnlyIndexedPopulated(e)
            ELSE NoResultSearchContinues

\* C15, amended: a failure to unpack the data payload is tolerated for the
\* events of the allow-list and, for an event of any other name, when the
\* payload is empty; for any other event with a non-empty payload it makes
\* parseLog return no result and Storage.DecodeLog continues with the next
\* ABI.
C15_DataFailureToleratedOnAllowListOrEmptyPayload ==
    LogAttempted =>
        \A e \in DataUnpackFailed :
            IF e.Name \in AllowList \/ input.dataLen = 0
            THEN OnlyIndexedPopulated(e)
            ELSE NoResultSearchContinues

\* An event that is not on the allow-list and declares data inputs was
\* returned from a log with an empty payload.
C15_Witness ==
    /\ LogAttempted
    /\ input.dataLen = 0
    /\ \E e \in DataUnpackFailed :
          e.Name \notin AllowList /\ OnlyIndexedPopulated(e) /\ outcome = attempt.res

\* A data failure on a non-empty payload sent the search to the next ABI, and
\* one on the allow-list was tolerated.
C15_Cases ==
    \/ LogAttempted /\ input.dataLen > 0
         /\ (\E e \in DataUnpackFailed : e.Name \notin AllowList) /\ NoResultSearchContinues
    \/ LogAttempted /\ input.dataLen > 0
         /\ (\E e \in DataUnpackFailed : e.Name \in AllowList /\ OnlyIndexedPopulated(e))


\* A log with the Transfer(address,address,uint256) topic, two zero-padded
\* addresses in topic1 and topic2 and one 32-byte word of data was decoded
\* against an ABI that declares the event with from and to indexed and value
\* in the payload.
TransferLogDecoded ==
    /\ LogDecoded
    /\ Len(input.topics) = 3
    /\ input.topics[1] = Keccak32("Transfer(address,address,uint256)")
    /\ input.topics[2].zero12
    /\ input.topics[3].zero12
    /\ input.dataLen = WordBytes
    /\ Resolved = {Erc20Transfer}

-----------------------------------------------------------------------------
(* The parameter normalizer: formatParameters on Go values                 *)
(* A decoded value is a record tagged with its Go type, t. A *big.Int is   *)
(* a sign and a magnitude in 16-bit words, least significant first; text   *)
(* is a sequence of characters; an address is its lower-case hex digits,   *)
(* AddrChars of them where go-ethereum has forty.                          *)

LimbBase == 65536

DecimalChars == <<"0", "1", "2", "3", "4", "5", "6", "7", "8", "9">>

BigInt(neg, abs) == [t |-> "*big.Int", neg |-> neg, abs |-> abs]

Str(s) == [t |-> "string", s |-> s]

StrList(elems) == [t |-> "[]string", elems |-> elems]

\* nat.norm: the magnitude without its leading zero words.
RECURSIVE norm(_)
norm(z) == IF z = <<>> \/ z[Len(z)] # 0 THEN z ELSE norm(SubSeq(z, 1, Len(z) - 1))

\* Division of the words z[1..k] by ten, from the most significant word down:
\* the quotient's words and the remainder.
RECURSIVE divTen(_, _, _)
divTen(z, k, rem) ==
    IF k = 0
    THEN [q |-> <<>>, r |-> rem]
    ELSE LET cur == rem * LimbBase + z[k]
             low == divTen(z, k - 1, cur % 10)
         IN  [q |-> Append(low.q, cur \div 10), r |-> low.r]

\* The decimal digits of a magnitude, most significant first; none for zero.
RECURSIVE decimal(_)
decimal(abs) ==
    IF abs = <<>>
    THEN <<>>
    ELSE LET d == divTen(abs, Len(abs), 0)
         IN  Append(decimal(norm(d.q)), DecimalChars[d.r + 1])

\* (*big.Int).String()
BigIntString(x) ==
    IF x.abs = <<>> THEN <<"0">>
    ELSE (IF x.neg THEN <<"-">> ELSE <<>>) \o decimal(x.abs)

LowerHex == {"a", "b", "c", "d", "e", "f"}

UpperHex == {"A", "B", "C", "D", "E", "F"}

HexChars == Range(DecimalChars) \cup LowerHex \cup UpperHex

ToLower(c) ==
    CASE c = "A" -> "a" [] c = "B" -> "b" [] c = "C" -> "c"
      [] c = "D" -> "d" [] c = "E" -> "e" [] c = "F" -> "f" [] OTHER -> c

ToUpper(c) ==
    CASE c = "a" -> "A" [] c = "b" -> "B" [] c = "c" -> "C"
      [] c = "d" -> "D" [] c = "e" -> "E" [] c = "f" -> "F" [] OTHER -> c

\* Whether the Keccak-256 digest of the lower-case hex digits has a nibble
\* above 7 at position i. The digest is not computed: a fixed function of the
\* digits and the position stands for it.
HashNibbleHigh(hex, i) ==
    (Cardinality({j \in 1..Len(hex) : hex[j] # "0"}) + i) % 2 = 1

\* common.Address.Hex(): "0x" and the EIP-55 checksum casing of the digits.
AddressHex(addr) ==
    Prefix0x \o [i \in 1..Len(addr) |->
                    IF addr[i] \in LowerHex /\ HashNibbleHigh(addr, i)
                    THEN ToUpper(addr[i]) ELSE addr[i]]

\* has0xPrefix
Has0xPrefix(s) == Len(s) >= 2 /\ s[1] = "0" /\ s[2] \in {"x", "X"}

Strip0x(s) == IF Has0xPrefix(s) THEN SubSeq(s, 3, Len(s)) ELSE s

\* A test that takes no text for an address.
IsHexAddressNever(s) == FALSE

\* common.IsHexAddress
IsHexAddress(s) ==
    /\ Len(Strip0x(s)) = AddrChars
    /\ \A i \in 1..Len(Strip0x(s)) : Strip0x(s)[i] \in HexChars

\* common.HexToAddress, for a text that IsHexAddress accepts.
HexToAddress(s) == [i \in 1..Len(Strip0x(s)) |-> ToLower(Strip0x(s)[i])]

\* const EtherAddress
EtherAddress == Prefix0x \o [i \in 1..AddrChars |-> "0"]

\* common.Bytes2Hex: a byte is the pair of its hex digits.
Bytes2Hex(bytes) == Concat(bytes)

\* formatParameters, the switch on the type of one value.
formatGoValue(value) ==
    CASE value.t = "*big.Int" -> Str(BigIntString(value))
      [] value.t = "*common.Address" -> Str(AddressHex(value.addr))
      [] value.t = "[][]uint8" ->
            StrList([i \in 1..Len(value.elems) |-> Prefix0x \o Bytes2Hex(value.elems[i])])
      [] value.t = "[]*big.Int" ->
            StrList([i \in 1..Len(value.elems) |-> BigIntString(value.elems[i])])
      [] value.t = "[]common.Address" ->
            StrList([i \in 1..Len(value.elems) |-> AddressHex(value.elems[i])])
      [] value.t = "[]uint8" -> Str(Prefix0x \o Bytes2Hex(value.bytes))
      [] value.t = "string" ->
            IF value.s # EtherAddress /\ IsHexAddress(value.s)
            THEN Str(AddressHex(HexToAddress(value.s)))
            ELSE value
      [] value.t \in {"bool", "uint8"} -> value
      [] value.t = "[32]uint8" -> Str(Prefix0x \o Bytes2Hex(value.bytes))
      [] OTHER -> value

\* formatParameters(decoded, debug) with debug off: every key of the map is
\* given the formatted value.
formatGoParameters(params) == [k \in DOMAIN params |-> formatGoValue(params[k])]


(* The values formatParameters is handed: what the ABI unpacker produces   *)
(* for static types and arrays, and the text parseLog's fallback stores.   *)

LimbSamples == {0, 1, 32, LimbBase - 1}

Magnitudes == {z \in SeqsUpTo(LimbSamples, MaxLimbs) : z = norm(z)}

BigInts == {BigInt(neg, abs) : neg \in BOOLEAN, abs \in Magnitudes} \ {BigInt(TRUE, <<>>)}

\* 0, -1, 2^53 + 1 and -(2^64).
ArrayInts ==
    {BigInt(FALSE, <<>>), BigInt(TRUE, <<1>>), BigInt(FALSE, <<1, 0, 0, 32>>),
     BigInt(TRUE, <<0, 0, 0, 0, 1>>)}

IntArrays == SeqsUpTo(ArrayInts, MaxElems)

Addresses == [1..AddrChars -> {"0", "a", "b"}]

ArrayAddresses == {[i \in 1..AddrChars |-> c] : c \in {"0", "a"}}

TextChars == {"0", "a", "A", "g"}

Texts ==
    {prefix \o body : prefix \in {<<>>, <<"0", "x">>, <<"0", "X">>},
                      body \in SeqsUpTo(TextChars, AddrChars + 1)}

ByteStrings == {<<>>, <<<<"a", "b">>>>, <<<<"0", "0">>, <<"f", "f">>>>}

Values ==
    BigInts
      \cup {[t |-> "[]*big.Int", elems |-> a] : a \in IntArrays}
      \cup {[t |-> "[N]*big.Int", elems |-> a] : a \in IntArrays \ {<<>>}}
      \cup {[t |-> "common.Address", addr |-> a] : a \in Addresses}
      \cup {[t |-> "[]common.Address", elems |-> a] : a \in SeqsUpTo(ArrayAddresses, MaxElems)}
      \cup {Str(s) : s \in Texts}
      \cup {[t |-> "bool", b |-> b] : b \in BOOLEAN}
      \cup {[t |-> "uint8", n |-> n] : n \in {0, 255}}
      \cup {[t |-> "[]uint8", bytes |-> b] : b \in ByteStrings}
      \cup {[t |-> "[32]uint8", bytes |-> b] : b \in ByteStrings \ {<<>>}}
      \cup {[t |-> "[][]uint8", elems |-> a] : a \in SeqsUpTo(ByteStrings, 1)}

\* One value of each kind, for maps with more than one key.
SmallValues ==
    {BigInt(TRUE, <<0, 0, 0, 0, 1>>),
     [t |-> "[]*big.Int", elems |-> <<BigInt(FALSE, <<1, 0, 0, 32>>)>>],
     [t |-> "common.Address", addr |-> [i \in 1..AddrChars |-> "a"]],
     Str(Prefix0x \o [i \in 1..AddrChars |-> "a"]),
     Str(EtherAddress),
     [t |-> "bool", b |-> TRUE]}

NoParameters == [k \in {} |-> Str(<<>>)]

ParamMaps ==
    {NoParameters}
      \cup {[k \in {"value"} |-> v] : v \in Values}
      \cup {[k \in {"from", "value"} |-> IF k = "from" THEN v ELSE w] :
               v \in SmallValues, w \in SmallValues}

\* formatParameters(decoded, debug) is called on a map: with debug on and a
\* key to visit it ends in log.Fatal, otherwise it returns the map with every
\* value formatted.
FormatCall ==
    /\ proc = "running"
    /\ fpc = "idle"
    /\ \E params \in ParamMaps, debug \in BOOLEAN :
          /\ unpacked' = params
          /\ IF debug /\ DOMAIN params # {}
             THEN proc' = "exited" /\ normalized' = NoParameters /\ fpc' = "fatal"
             ELSE proc' = proc /\ normalized' = formatGoParameters(params) /\ fpc' = "done"
    /\ UNCHANGED formatFrame

\* The caller takes the returned map.
FormatRelease ==
    /\ proc = "running"
    /\ fpc = "done"
    /\ unpacked' = <<>>
    /\ normalized' = <<>>
    /\ fpc' = "idle"
    /\ UNCHANGED proc
    /\ UNCHANGED formatFrame

FormatNext ==
    \/ FormatCall
    \/ FormatRelease

FormatInit == proc = "running" /\ DecodeInit /\ MergeInit /\ DetectIdle /\ TokenIdle /\ FormatIdle /\ CacheIdle /\ IndexIdle /\ CtxIdle /\ BalanceIdle

SpecFormat == FormatInit /\ [][FormatNext]_vars


-----------------------------------------------------------------------------
(* Claims about formatParameters *)

Formatted == fpc = "done"

\* abs * 10 + carry on the words from position k on.
RECURSIVE mulTenAdd(_, _, _)
mulTenAdd(abs, k, carry) ==
    IF k > Len(abs)
    THEN IF carry = 0 THEN <<>> ELSE <<carry>>
    ELSE LET cur == abs[k] * 10 + carry
         IN  <<cur % LimbBase>> \o mulTenAdd(abs, k + 1, cur \div LimbBase)

DigitOf(c) == CHOOSE d \in 0..9 : DecimalChars[d + 1] = c

\* The magnitude the decimal digits s[1..n] denote.
RECURSIVE magnitudeOf(_, _)
magnitudeOf(s, n) ==
    IF n = 0 THEN <<>> ELSE mulTenAdd(magnitudeOf(s, n - 1), 1, DigitOf(s[n]))

NotANumber == [neg |-> FALSE, abs |-> <<-1>>]

\* The integer a decimal string parses to: an optional minus sign and at
\* least one digit.
ParseInt(s) ==
    LET neg == Len(s) > 0 /\ s[1] = "-"
        digits == IF neg THEN Tail(s) ELSE s
    IN  IF digits = <<>> \/ \E i \in 1..Len(digits) : digits[i] \notin Range(DecimalChars)
        THEN NotANumber
        ELSE [neg |-> neg, abs |-> magnitudeOf(digits, Len(digits))]

IntegerOf(x) == [neg |-> x.neg, abs |-> x.abs]

\* The value came out as a decimal string that parses back to the integer x.
RoundTrips(out, x) == out.t = "string" /\ ParseInt(out.s) = IntegerOf(x)

\* The array came out as decimal strings that parse back to its integers, in
\* their order.
ElementsRoundTrip(out, elems) ==
    /\ out.t = "[]string"
    /\ Len(out.elems) = Len(elems)
    /\ \A i \in 1..Len(elems) : ParseInt(out.elems[i]) = IntegerOf(elems[i])

\* C17: every arbitrary-precision integer decoded as a parameter or as an
\* element of an integer array comes out of formatParameters as a decimal
\* string that parses back to exactly that integer; array elements keep
\* their order.
C17_IntegersRoundTripThroughDecimal ==
    Formatted =>
        \A k \in DOMAIN unpacked :
            /\ unpacked[k].t = "*big.Int" => RoundTrips(normalized[k], unpacked[k])
            /\ unpacked[k].t \in {"[]*big.Int", "[N]*big.Int"} =>
                  ElementsRoundTrip(normalized[k], unpacked[k].elems)

\* The part of C17 about *big.Int parameters and slices of them.
ScalarsAndSlicesRoundTrip ==
    Formatted =>
        \A k \in DOMAIN unpacked :
            /\ unpacked[k].t = "*big.Int" => RoundTrips(normalized[k], unpacked[k])
            /\ unpacked[k].t = "[]*big.Int" =>
                  ElementsRoundTrip(normalized[k], unpacked[k].elems)

\* A negative integer beyond 2^64 came out as a decimal string.
BeyondSixtyFourBits ==
    /\ Formatted
    /\ \E k \in DOMAIN unpacked :
          /\ unpacked[k].t = "*big.Int"
          /\ unpacked[k].neg
          /\ Len(unpacked[k].abs) = 5
          /\ Len(normalized[k].s) >= 21


\* C18: every decoded value of the 20-byte address type, and every element of
\* an address array, comes out of formatParameters as its checksum-cased hex
\* string; no address value leaves in its raw form.
C18_AddressesBecomeChecksumStrings ==
    Formatted =>
        \A k \in DOMAIN unpacked :
            /\ unpacked[k].t = "common.Address" =>
                  normalized[k] = Str(AddressHex(unpacked[k].addr))
            /\ unpacked[k].t = "[]common.Address" =>
                  /\ normalized[k].t = "[]string"
                  /\ Len(normalized[k].elems) = Len(unpacked[k].elems)
                  /\ \A i \in 1..Len(unpacked[k].elems) :
                        normalized[k].elems[i] = AddressHex(unpacked[k].elems[i])

\* The part of C18 about address arrays.
AddressSlicesBecomeChecksumStrings ==
    Formatted =>
        \A k \in DOMAIN unpacked :
            unpacked[k].t = "[]common.Address" =>
                normalized[k] =
                    StrList([i \in 1..Len(unpacked[k].elems) |-> AddressHex(unpacked[k].elems[i])])

\* The text is an address literal: AddrChars hex digits of either case after
\* an optional 0x or 0X.
AddressLiteral(s) ==
    \E n \in {0, 2} :
        /\ Len(s) = n + AddrChars
        /\ n = 2 => (s[1] = "0" /\ s[2] \in {"x", "X"})
        /\ \A i \in (n + 1)..Len(s) : s[i] \in HexChars

\* The zero-address literal, 0x and nothing but zeros.
ZeroAddressLiteral == <<"0", "x">> \o [i \in 1..AddrChars |-> "0"]

\* The checksum rendering of an address literal.
ChecksumRendering(s) ==
    LET digits == SubSeq(s, Len(s) - AddrChars + 1, Len(s))
    IN  AddressHex([i \in 1..AddrChars |-> ToLower(digits[i])])

-----------------------------------------------------------------------------
(* The token metadata cache: ITknStore (tokens.go) *)

\* What the chain holds at an address: the first contract of the model is an
\* ERC-20, the others also have ownerOf.
CodeAt(address) ==
    Concat(<<TransferTopicHex, BalanceOfId>>) \o (IF address = 1 THEN <<>> ELSE OwnerOf)

\* ToAscii of the answer to name() / symbol() of the contract at an address.
NameAt(address) == <<"T", address>>

\* What the chain client does with the calls of one resolution: it answers
\* them all, or CodeAt returns an error, or a CallContract returns an error.
ChainAnswers == {"ok", "CodeAt fails", "CallContract fails"}

\* func queryTokenInfo(client, ctx, address, bytecodes ...string) ITknInfo,
\* called without bytecodes, every call to the client succeeding.
queryTokenInfo(address) ==
    {[Address |-> address, IsERC20 |-> isErc20, IsERC721 |-> isErc721,
      IsERC1155 |-> isErc20 /\ isErc721, Name |-> NameAt(address),
      Symbol |-> NameAt(address), Decimals |-> 18, Meta |-> "{}"] :
        isErc20 \in IsERC20(CodeAt(address)), isErc721 \in IsERC721(CodeAt(address))}

\* An ITknInfo the caller builds itself for an address.
CallerInfo(address, isErc20, isErc721) ==
    [Address |-> address, IsERC20 |-> isErc20, IsERC721 |-> isErc721, IsERC1155 |-> FALSE,
     Name |-> <<"own">>, Symbol |-> <<"own">>, Decimals |-> 18, Meta |-> "{}"]

\* func (store *ITknStore) HasTknInfo(address common.Address) bool
HasTknInfo(address) == data[address] # NilRef

\* The references that point to an ITknInfo.
Refs == 1..Len(infos)

\* The callers whose resolution of an address is under way.
InFlight(address) == {c \in Callers : cpc[c] = "resolving" /\ asked[c] = address}

Resolving == {c \in Callers : cpc[c] = "resolving"}

\* func (store *ITknStore) SetClient(client *ethclient.Client)
SetClientCall ==
    /\ proc = "running"
    /\ ~client
    /\ client' = TRUE
    /\ UNCHANGED <<proc, data, infos, queries, asked, got, cpc, made>>
    /\ UNCHANGED cacheFrame

\* func (store *ITknStore) SetTknInfo(nfo *ITknInfo), the caller passing an
\* ITknInfo it holds already or one it has just built.
SetTknInfoCall ==
    /\ proc = "running"
    /\ \/ \E nfo \in Refs :
            /\ data' = [data EXCEPT ![infos[nfo].Address] = nfo]
            /\ infos' = infos
       \/ /\ Len(infos) + Cardinality(Resolving) < MaxInfos
          /\ \E address \in TknAddresses, isErc20 \in BOOLEAN, isErc721 \in BOOLEAN :
                /\ infos' = Append(infos, CallerInfo(address, isErc20, isErc721))
                /\ data' = [data EXCEPT ![address] = Len(infos) + 1]
    /\ UNCHANGED <<proc, client, queries, asked, got, cpc, made>>
    /\ UNCHANGED cacheFrame

\* func (store *ITknStore) GetTknInfo(address common.Address) (*ITknInfo, error)
\* up to the first call to the chain client: a cached entry is returned at
\* once; without a client requireClientContext panics (in the revisions that
\* read Ctx.eth, getBytecode returns nil and queryTokenInfo dereferences it).
GetTknInfoCall(c) ==
    /\ proc = "running"
    /\ cpc[c] = "ready"
    /\ \E address \in TknAddresses :
        /\ asked' = [asked EXCEPT ![c] = address]
        /\ IF HasTknInfo(address)
             THEN /\ got' = [got EXCEPT ![c] = data[address]]
                  /\ cpc' = [cpc EXCEPT ![c] = "returned"]
                  /\ UNCHANGED <<proc, queries>>
             ELSE IF ~client
                    THEN /\ proc' = "exited"
                         /\ got' = [got EXCEPT ![c] = NilRef]
                         /\ cpc' = [cpc EXCEPT ![c] = "panicked"]
                         /\ UNCHANGED queries
                    ELSE /\ Len(infos) + Cardinality(Resolving) < MaxInfos
                         /\ queries' = queries + 1
                         /\ got' = [got EXCEPT ![c] = NilRef]
                         /\ cpc' = [cpc EXCEPT ![c] = "resolving"]
                         /\ UNCHANGED proc
    /\ UNCHANGED <<data, infos, client, made>>
    /\ UNCHANGED cacheFrame

\* The rest of GetTknInfo, once the chain client has answered: queryTokenInfo
\* builds the ITknInfo and GetTknInfo returns &result. A failed CodeAt ends in
\* log.Fatal (getBytecode); a failed CallContract leaves a nil *string, which
\* queryTokenInfo dereferences.
GetTknInfoResolve(c) ==
    /\ proc = "running"
    /\ cpc[c] = "resolving"
    /\ \E answer \in ChainAnswers :
          IF answer = "ok"
            THEN \E nfo \in queryTokenInfo(asked[c]) :
                    /\ infos' = Append(infos, nfo)
                    /\ got' = [got EXCEPT ![c] = Len(infos) + 1]
                    /\ cpc' = [cpc EXCEPT ![c] = "returned"]
                    /\ proc' = proc
            ELSE /\ proc' = "exited"
                 /\ cpc' = [cpc EXCEPT ![c] = "panicked"]
                 /\ UNCHANGED <<infos, got>>
    /\ UNCHANGED <<data, client, queries, asked, made>>
    /\ UNCHANGED cacheFrame

\* The caller takes the reference GetTknInfo returned.
GetTknInfoReturn(c) ==
    /\ proc = "running"
    /\ cpc[c] = "returned"
    /\ cpc' = [cpc EXCEPT ![c] = "ready"]
    /\ UNCHANGED <<proc, data, infos, client, queries, asked, got, made>>
    /\ UNCHANGED cacheFrame

\* ALL_DEFAULT_ABIS[0] and ALL_DEFAULT_ABIS[1]: the ERC-20 and the ERC-721
\* documents (getERC20Balance packs balanceOf with the first).
ALL_DEFAULT_ABIS == <<"erc20", "erc721">>

\* func MergeABIs(abis ...string) abi.ABI, for documents that parse.
RECURSIVE MergeABIs(_)
MergeABIs(abis) ==
    IF abis = <<>> THEN EmptyABI
    ELSE MergeOne(MergeABIs(SubSeq(abis, 1, Len(abis) - 1)), AbiJSON(abis[Len(abis)]))

\* A nil *AbiDecoder.
NilDecoder == [kind |-> "nil"]

\* func (tkn *ITknInfo) GetDecoder() AbiDecoder
ITknInfoGetDecoder(tkn) ==
    LET merged == MergeABIs(<<ALL_DEFAULT_ABIS[1], ALL_DEFAULT_ABIS[2]>>)
    IN  [ContractAddress |-> tkn.Address,
         Debug |-> FALSE,
         Abi |-> IF tkn.IsERC20 THEN ParseABI(ALL_DEFAULT_ABIS[1])
                 ELSE IF tkn.IsERC721 THEN ParseABI(ALL_DEFAULT_ABIS[2])
                 ELSE merged]

\* store.abis[addr]: TknStore is built without the abis map and SetAbi cannot
\* assign into a nil map, so every read of it yields nil.
abis(addr) == NilAbi

\* func (store *ITknStore) HasAbi(address common.Address) bool
HasAbi(address) == data[address] # NilRef

\* func (store *ITknStore) GetAbi(addr common.Address) *abi.ABI; without an
\* entry it assigns through the nil pointer result.
GetAbi(addr) == IF HasAbi(addr) THEN abis(addr) ELSE Fatal("nil pointer dereference")

\* func (tkn *ITknInfo) CreateDecoder() AbiDecoder
CreateDecoder(tkn) ==
    [ContractAddress |-> tkn.Address, Debug |-> FALSE, Abi |-> GetAbi(tkn.Address)]

\* What a GetDecoder returns: (nil, error) or (&decoder, nil).
Made(by, contract, d, err) ==
    [kind |-> "returned", by |-> by, contract |-> contract, decoder |-> d, err |-> err]

\* func (store *ITknStore) GetDecoder(contract common.Address) (*AbiDecoder, error)
\* of the revisions that build the decoder with info.GetDecoder().
GetDecoderCall ==
    /\ proc = "running"
    /\ \E contract \in TknAddresses :
          made' = IF ~HasTknInfo(contract)
                    THEN Made("GetDecoder", contract, NilDecoder, TRUE)
                    ELSE Made("GetDecoder", contract,
                              ITknInfoGetDecoder(infos[data[contract]]), FALSE)
    /\ UNCHANGED <<proc, data, infos, client, queries, asked, got, cpc>>
    /\ UNCHANGED cacheFrame

\* func (store *ITknStore) GetDecoder(contract common.Address) (*AbiDecoder, error)
\* of the revision that builds the decoder with info.CreateDecoder().
GetDecoderCreateCall ==
    /\ proc = "running"
    /\ \E contract \in TknAddresses :
          made' = IF ~HasTknInfo(contract)
                    THEN Made("CreateDecoder", contract, NilDecoder, TRUE)
                    ELSE Made("CreateDecoder", contract,
                              CreateDecoder(infos[data[contract]]), FALSE)
    /\ UNCHANGED <<proc, data, infos, client, queries, asked, got, cpc>>
    /\ UNCHANGED cacheFrame

CacheNext ==
    \/ SetClientCall
    \/ SetTknInfoCall
    \/ \E c \in Callers : GetTknInfoCall(c)
    \/ \E c \in Callers : GetTknInfoResolve(c)
    \/ \E c \in Callers : GetTknInfoReturn(c)
    \/ GetDecoderCall
    \/ GetDecoderCreateCall

CacheInit == proc = "running" /\ DecodeInit /\ MergeInit /\ DetectIdle /\ TokenIdle /\ FormatIdle /\ CacheIdle /\ IndexIdle /\ CtxIdle /\ BalanceIdle

SpecCache == CacheInit /\ [][CacheNext]_vars

-----------------------------------------------------------------------------
(* Claims about the token metadata cache *)

\* GetTknInfo has just returned to caller c a reference for the address it
\* was asked about.
GetReturns(c) == cpc[c] # "returned" /\ cpc'[c] = "returned"

\* A lookup of a cached address returns the cached reference and makes no
\* call to the chain client.
CachedEntryReturned ==
    [][\A c \in Callers :
          (GetReturns(c) /\ cpc[c] = "ready") =>
              (got'[c] = data[asked'[c]] /\ queries' = queries /\ infos' = infos)]_vars

\* An uncached lookup that returns has resolved the metadata of the address
\* through the chain client.
UncachedEntryResolved ==
    [][\A c \in Callers :
          (GetReturns(c) /\ cpc[c] = "resolving") =>
              /\ got'[c] = Len(infos')
              /\ infos'[got'[c]] \in queryTokenInfo(asked[c])]_vars

\* C20: GetTknInfo(address) returns the cached entry when there is one; when
\* there is none it resolves the metadata through the chain client and stores
\* the entry, so that once it has returned HasTknInfo(address) is true and the
\* cache holds for the address the very reference it returned (which a second
\* lookup then returns without a call to the chain client).
C20_LookupStoresWhatItResolves ==
    [][\A c \in Callers :
          GetReturns(c) =>
              /\ cpc[c] = "ready" => (got'[c] = data[asked'[c]] /\ queries' = queries)
              /\ data'[asked'[c]] # NilRef
              /\ data'[asked'[c]] = got'[c]]_vars

\* The same address was resolved through the chain client twice, with two
\* ITknInfo values to show for it, and the cache still has no entry for it.
ResolvedTwiceAndNotCached ==
    /\ queries = 2
    /\ Len(infos) = 2
    /\ infos[1].Address = infos[2].Address
    /\ data[infos[1].Address] = NilRef
    /\ \E c \in Callers : cpc[c] = "returned"

\* GetDecoder has just returned.
GetDecoderReturns == made' # made

\* The ABI that goes with the flags of a cached entry.
AbiFor(tkn) ==
    IF tkn.IsERC20 THEN Erc20Abi
    ELSE IF tkn.IsERC721 THEN Erc721Abi
    ELSE MergeOne(Erc20Abi, Erc721Abi)

\* What the claim says of a value GetDecoder returned for an address.
AsClaimed(m) ==
    IF data[m.contract] = NilRef
      THEN m.decoder = NilDecoder /\ m.err
      ELSE /\ ~m.err
           /\ m.decoder # NilDecoder
           /\ checkAbi(m.decoder)
           /\ m.decoder.Abi = AbiFor(infos[data[m.contract]])

\* C21: GetDecoder(address) returns an error and no decoder when the address
\* has no cached entry; when it has one it returns a decoder whose Abi is not
\* nil and is the ERC20 ABI if the entry's IsERC20 is set, else the ERC721 ABI
\* if IsERC721 is set, else the merge of both.
C21_GetDecoderSelectsAbiByStandard ==
    [][GetDecoderReturns => AsClaimed(made')]_vars

\* The same, of the revisions that build the decoder with info.GetDecoder().
GetDecoderOfInfoSelectsAbiByStandard ==
    [][(GetDecoderReturns /\ made'.by = "GetDecoder") => AsClaimed(made')]_vars

\* Without a cached entry every GetDecoder returns the error and no decoder.
GetDecoderNotFound ==
    [][(GetDecoderReturns /\ data[made'.contract] = NilRef) =>
            (made'.decoder = NilDecoder /\ made'.err)]_vars

\* A GetDecoder returned, for a cached entry, a decoder without an ABI.
DecoderWithoutAbi ==
    /\ made # NoDecoder
    /\ made.decoder # NilDecoder
    /\ ~checkAbi(made.decoder)


\* C22: of the callers that run GetTknInfo for one uncached address at the
\* same time, at most one has a resolution through the chain client under
\* way; the others wait for its result.
C22_OneResolutionInFlightPerAddress ==
    \A address \in TknAddresses : Cardinality(InFlight(address)) <= 1

\* Lookups of different addresses are under way at the same time: neither
\* waits for the other.
DifferentAddressesInFlight ==
    \E c1, c2 \in Resolving : asked[c1] # asked[c2]

\* Two callers resolved the same address at the same time and each was handed
\* an ITknInfo of its own.
SameAddressResolvedTwiceAtOnce ==
    \E c1, c2 \in Callers :
        /\ c1 # c2
        /\ cpc[c1] = "returned" /\ cpc[c2] = "returned"
        /\ asked[c1] = asked[c2]
        /\ got[c1] # got[c2]
        /\ queries = 2
        /\ data[asked[c1]] = NilRef

\* C23: a GetTknInfo that finds no chain client configured, or whose bytecode
\* fetch or name / symbol / decimals call fails, returns an error value: the
\* lookup does not panic and the process keeps running.
C23_LookupFailureIsAnErrorValue ==
    \A c \in Callers : cpc[c] # "panicked" /\ proc = "running"

\* A lookup that fails leaves the cache as it was: no entry is added for the
\* address.
FailedLookupLeavesNoEntry ==
    [][(\E c \in Callers : cpc'[c] = "panicked" /\ cpc[c] # "panicked") =>
            (data' = data /\ infos' = infos)]_vars

-----------------------------------------------------------------------------
(* Claims about failures of the decode engine *)

\* C24: no operation of the decoder ends the process: a document that does
\* not parse, a payload that does not unpack after its selector matched and a
\* decode without an ABI are reported to the caller, and the process runs on.
C24_NoOperationEndsTheProcess ==
    [][proc' = "running"]_vars

\* A decode by an AbiDecoder without an ABI ends in log.Fatal.
DecodeWithoutAbiExits ==
    [][(op = "idle" /\ op' \in {"AbiDecoder.DecodeMethod", "AbiDecoder.DecodeLog"}
            /\ ~checkAbi(decoder)) => proc' = "exited"]_vars

\* Storage.DecodeMethod or Storage.DecodeLog returned while no ABI was loaded.
DecodedWithNothingLoaded ==
    /\ op \in {"Storage.DecodeMethod", "Storage.DecodeLog"}
    /\ outcome # NoOutcome
    /\ AbiList = <<>>

\* C25: a decode requested while no interface is loaded yields an outcome
\* the caller can tell from "nothing matched": it is never the plain nil.
C25_NothingLoadedIsNotNoMatch ==
    DecodedWithNothingLoaded => outcome # Nil

-----------------------------------------------------------------------------
(* The selector and the topic a decoded result exposes *)

\* func (data *DecodedMethod) GetSigHash() string
GetSigHash(d) == IF d = Nil THEN <<>> ELSE <<"0x">> \o d.SigHash

\* func (data *DecodedLog) GetSigHash() string
LogGetSigHash(d) == IF d = Nil THEN <<>> ELSE d.Topic

\* "0x" followed by the hex digits of a selector or topic, with one prefix.
Rendered(hash) == <<"0x", hash>>

MethodDecoded == op = "AbiDecoder.DecodeMethod" /\ outcome # NoOutcome /\ outcome.kind = "method"

\* The serialized SigHash field and the Topic field carry one 0x prefix.
FieldsRenderedOnce ==
    /\ MethodDecoded => outcome.SigHash = Rendered(input.sel)
    /\ (LogDecoded /\ outcome.kind = "log") =>
            /\ outcome.Topic = Rendered(input.topics[1])
            /\ LogGetSigHash(outcome) = Rendered(input.topics[1])

\* C26: the selector of a DecodedMethod, as its SigHash field and as the
\* value of GetSigHash(), is "0x" followed by the 8 hex digits of the
\* selector, with one 0x prefix; the Topic of a DecodedLog is "0x" followed by
\* the 64 hex digits of topic0.
C26_SelectorRenderedWithOnePrefix ==
    /\ MethodDecoded =>
            /\ outcome.SigHash = Rendered(input.sel)
            /\ GetSigHash(outcome) = Rendered(input.sel)
    /\ (LogDecoded /\ outcome.kind = "log") => outcome.Topic = Rendered(input.topics[1])

\* GetSigHash() of a decoded method begins with 0x0x.
DoublePrefix ==
    /\ MethodDecoded
    /\ SubSeq(GetSigHash(outcome), 1, 2) = <<"0x", "0x">>

-----------------------------------------------------------------------------
(* The indexed contracts of the Storage: Store.Indexed (abi-store.go) *)

\* An AbiStorage whose Verified and IsToken fields are taken from each
\* other's argument.
NewAbiStorageSwapped(address, abi, verified, isToken) ==
    [Address |-> HexToAddress(address), Abi |-> abi,
     Verified |-> isToken, IsToken |-> verified]

\* &AbiStorage{Address: common.HexToAddress(address), Abi: input, ...}
NewAbiStorage(address, abi, verified, isToken) ==
    [Address |-> HexToAddress(address), Abi |-> abi,
     Verified |-> verified, IsToken |-> isToken]

\* func (*Storage) IndexedAddresses() []string, as the set of its elements.
IndexedAddresses == {k \in DOMAIN StoreIndexed : StoreIndexed[k] # Nil}

\* func (*Storage) GetIndexed(address string) *AbiStorage
GetIndexed(address) == IF StoreIndexed[address] # Nil THEN StoreIndexed[address] ELSE Nil

\* func (store *Storage) IsIndexed(address string) bool
IsIndexed(address) == address \in IndexedAddresses

\* The ABIs handed to SetIndexed.
IndexedAbis == {Erc20Abi, Erc721Abi}

\* func (*Storage) SetIndexed(address string, input abi.ABI, verified bool,
\* isToken bool) *AbiStorage
SetIndexed(address, abi, verified, isToken) ==
    /\ proc = "running"
    /\ StoreIndexed' = [StoreIndexed EXCEPT ![address] = NewAbiStorage(address, abi, verified, isToken)]
    /\ icall' = [fn |-> "SetIndexed", address |-> address, input |-> abi,
                 verified |-> verified, isToken |-> isToken,
                 returned |-> StoreIndexed'[address]]
    /\ UNCHANGED indexFrame

\* func (data *Storage) RemoveIndexed(address string)
RemoveIndexed(address) ==
    /\ proc = "running"
    /\ StoreIndexed' = [StoreIndexed EXCEPT ![address] = Nil]
    /\ icall' = [fn |-> "RemoveIndexed", address |-> address]
    /\ UNCHANGED indexFrame

IndexNext ==
    \/ \E address \in IndexedKeys, abi \in IndexedAbis, verified \in BOOLEAN,
          isToken \in BOOLEAN : SetIndexed(address, abi, verified, isToken)
    \/ \E address \in IndexedKeys : RemoveIndexed(address)

IndexInit == proc = "running" /\ DecodeInit /\ MergeInit /\ DetectIdle /\ TokenIdle /\ FormatIdle /\ CacheIdle /\ IndexIdle /\ CtxIdle /\ BalanceIdle

SpecIndex == IndexInit /\ [][IndexNext]_vars

-----------------------------------------------------------------------------
(* Claims about the indexed contracts *)

\* The address an address string spells: its digits after 0x, whatever the
\* case of the letters.
Spelled(address) == [i \in 1..AddrChars |-> ToLower(address[i + 2])]

\* C27: after a SetIndexed or RemoveIndexed on an address string, GetIndexed
\* of it is non-nil iff IsIndexed of it iff the call was a SetIndexed; the
\* entry's Address is the address the string spells and its Abi, Verified and
\* IsToken are the arguments of that SetIndexed; the entries under the other
\* address strings are as they were.
C27_IndexedEntryFollowsLastCall ==
    [][\A a \in IndexedKeys :
          a = icall'.address =>
              /\ \A k \in IndexedKeys : (GetIndexed(k)' # Nil) <=> IsIndexed(k)'
              /\ IsIndexed(a)' <=> (icall'.fn = "SetIndexed")
              /\ icall'.fn = "SetIndexed" =>
                    /\ GetIndexed(a)'.Address = Spelled(a)
                    /\ GetIndexed(a)'.Abi = icall'.input
                    /\ GetIndexed(a)'.Verified = icall'.verified
                    /\ GetIndexed(a)'.IsToken = icall'.isToken
                    /\ icall'.returned = GetIndexed(a)'
              /\ \A k \in IndexedKeys \ {a} : GetIndexed(k)' = GetIndexed(k)]_vars

\* An entry was removed while the entry under another spelling of the same
\* address, set with other arguments, stayed.
C27_Witness ==
    /\ icall.fn = "RemoveIndexed"
    /\ \E k \in IndexedKeys \ {icall.address} :
          /\ Spelled(k) = Spelled(icall.address)
          /\ IsIndexed(k)
          /\ GetIndexed(k).Verified /\ ~GetIndexed(k).IsToken
    /\ ~IsIndexed(icall.address)

-----------------------------------------------------------------------------
(* The global context: Ctx, NewCtx, SetClient, Connect, ReloadCtx *)

\* The chain nodes: a node's URL, the client ethclient.Dial returns for it and
\* the chain id it reports are all written as the node's number.
Clients == 1..MaxClients

\* What client.ChainID can return for a client: an error, or the chain id.
ChainIDAnswers(eth) == IF eth = NilPtr THEN {NilPtr} ELSE {NilPtr, eth}

\* What IsEIP1559 can return: an error, or a *bool.
IsEIP1559Answers == {NilPtr, <<TRUE>>, <<FALSE>>}

\* func NewCtx(chainId *big.Int) ctxType: the value it returns when the global
\* is ctx, ChainID answers id and IsEIP1559 answers is. Its assignments to the
\* fields of the global are lost when the caller assigns the result to Ctx.
NewCtx(ctx, chainId, id, is) ==
    IF ctx.eth = NilPtr THEN ZeroCtx
    ELSE IF chainId # NilPtr /\ ctx.chainId = chainId /\ ctx.initialized
    THEN [initialized |-> ctx.initialized, connection |-> ctx.connection,
          isLegacy |-> ctx.isLegacy, chainId |-> ctx.chainId,
          signer |-> ctx.signer, eth |-> ctx.eth]
    ELSE LET cid == IF chainId = NilPtr /\ ctx.chainId = NilPtr THEN id
                    ELSE IF chainId = NilPtr THEN ctx.chainId
                    ELSE chainId
             legacy == IF ctx.isLegacy = NilPtr THEN is ELSE ctx.isLegacy
             signer == IF legacy = <<TRUE>> THEN <<"EIP155", cid>> ELSE <<"London", cid>>
         IN  [ZeroCtx EXCEPT !.isLegacy = legacy, !.eth = ctx.eth,
                             !.chainId = cid, !.signer = signer]

\* Ctx.eth = client; Ctx = NewCtx(nil)
SetClientBody(eth) ==
    \E id \in ChainIDAnswers(eth), is \in IsEIP1559Answers :
        Ctx' = NewCtx([Ctx EXCEPT !.eth = eth], NilPtr, id, is)

\* No Connect is waiting for ethclient.Dial.
CtxReady == proc = "running" /\ xcall.at # "dial"

\* func SetClient(client *ethclient.Client) *ethclient.Client
CtxSetClient(eth) ==
    /\ CtxReady
    /\ SetClientBody(eth)
    /\ xcall' = [fn |-> "SetClient", client |-> eth, at |-> "done"]
    /\ UNCHANGED proc
    /\ UNCHANGED ctxFrame

\* func Connect(nodeUrl string) *ethclient.Client, up to ethclient.Dial
CtxConnect(nodeUrl) ==
    /\ CtxReady
    /\ Ctx' = [Ctx EXCEPT !.connection = <<nodeUrl>>]
    /\ xcall' = [fn |-> "Connect", nodeUrl |-> nodeUrl, at |-> "dial"]
    /\ UNCHANGED proc
    /\ UNCHANGED ctxFrame

\* The rest of Connect: panic(err) when Dial failed, else SetClient(client).
CtxConnectDialed ==
    /\ proc = "running"
    /\ xcall.at = "dial"
    /\ \E ok \in BOOLEAN :
          IF ok
            THEN /\ SetClientBody(<<xcall.nodeUrl>>)
                 /\ xcall' = [fn |-> "Connect", nodeUrl |-> xcall.nodeUrl,
                              client |-> <<xcall.nodeUrl>>, at |-> "done"]
                 /\ UNCHANGED proc
            ELSE /\ proc' = "exited"
                 /\ xcall' = [xcall EXCEPT !.at = "panic"]
                 /\ UNCHANGED Ctx
    /\ UNCHANGED ctxFrame

\* func (s *ctxType) ReloadCtx()
CtxReload ==
    /\ CtxReady
    /\ \E id \in ChainIDAnswers(Ctx.eth), is \in IsEIP1559Answers :
          Ctx' = NewCtx(Ctx, Ctx.chainId, id, is)
    /\ xcall' = [fn |-> "ReloadCtx", at |-> "done"]
    /\ UNCHANGED proc
    /\ UNCHANGED ctxFrame

CtxNext ==
    \/ \E eth \in {NilPtr} \cup {<<c>> : c \in Clients} : CtxSetClient(eth)
    \/ \E nodeUrl \in Clients : CtxConnect(nodeUrl)
    \/ CtxConnectDialed
    \/ CtxReload

CtxInit == proc = "running" /\ DecodeInit /\ MergeInit /\ DetectIdle /\ TokenIdle /\ FormatIdle /\ CacheIdle /\ IndexIdle /\ CtxIdle /\ BalanceIdle

SpecCtx == CtxInit /\ [][CtxNext]_vars

-----------------------------------------------------------------------------
(* Claims about the global context *)

\* A SetClient or a Connect has just returned with a client that is not nil.
ClientSet ==
    /\ xcall.at = "done"
    /\ xcall.fn \in {"SetClient", "Connect"}
    /\ xcall.client # NilPtr

\* After SetClient or Connect, Ctx.eth is the client.
ClientHeld == ClientSet => Ctx.eth = xcall.client

\* Ctx.initialized is never true, and once a call has returned Ctx holds no
\* connection string.
NeverInitialized ==
    /\ ~Ctx.initialized
    /\ (xcall.fn # "none" /\ xcall.at = "done") => Ctx.connection = NilPtr

\* C28: after Connect(nodeUrl) or SetClient(client) with a client that is
\* not nil, Ctx.eth is that client, Ctx.initialized is true and Ctx.connection
\* is still the string Connect set; a ReloadCtx, which replaces Ctx with the
\* value NewCtx returns, drops none of these fields.
C28_CtxKeepsClientAndConnection ==
    [][/\ ClientSet' =>
            /\ Ctx'.eth = xcall'.client
            /\ Ctx'.initialized
            /\ xcall'.fn = "Connect" => Ctx'.connection = <<xcall'.nodeUrl>>
       /\ (xcall'.fn = "ReloadCtx" /\ Ctx.eth # NilPtr) =>
            /\ Ctx'.eth = Ctx.eth
            /\ Ctx'.initialized = Ctx.initialized
            /\ Ctx'.connection = Ctx.connection]_vars

\* Connect returned with a working client and Ctx has no connection string.
ConnectionDropped ==
    /\ ClientSet
    /\ xcall.fn = "Connect"
    /\ Ctx.eth = xcall.client
    /\ Ctx.connection = NilPtr
    /\ ~Ctx.initialized

-----------------------------------------------------------------------------
(* Balances and decimals read from a token contract (tokens.go) *)

Uint64Limbs == 4    \* 16-bit words of a uint64

Uint8Base == 256    \* values of a uint8

\* (*big.Int).Uint64() of a non-negative integer: its low 64 bits.
Uint64(abs) == norm(SubSeq(abs, 1, Min({Uint64Limbs, Len(abs)})))

\* uint8(v) of a uint64: its low 8 bits.
Uint8(abs) ==
    IF abs = <<>> \/ abs[1] % Uint8Base = 0 THEN <<>> ELSE <<abs[1] % Uint8Base>>

\* What the call to the contract yields: an error, or the uint256 it returned.
CallContractAnswers == {[err |-> TRUE, word |-> <<>>]} \cup {[err |-> FALSE, word |-> b] : b \in Magnitudes}

\* func getERC20Balance(client, ctx, address, contractAddress) (uint64, error)
getERC20Balance(answer) ==
    IF answer.err THEN [value |-> <<>>, err |-> TRUE]
    ELSE [value |-> Uint64(answer.word), err |-> FALSE]

\* func getDecimals(client, ctx, contract) *uint8: nil on error.
getDecimals(answer) ==
    IF answer.err THEN NilPtr
    ELSE <<Uint8(Uint64(answer.word))>>

\* func (store *ITknStore) BalanceOf(tkn, addr) (uint64, error):
\* requireClientContext panics without a client.
StoreBalanceOf ==
    /\ proc = "running"
    /\ bcall = NoCall
    /\ \E connected \in BOOLEAN, answer \in CallContractAnswers :
          IF ~connected
            THEN /\ proc' = "exited"
                 /\ bcall' = [fn |-> "ITknStore.BalanceOf", at |-> "panic"]
            ELSE /\ proc' = proc
                 /\ bcall' = [fn |-> "ITknStore.BalanceOf", at |-> "done", answer |-> answer,
                              returned |-> getERC20Balance(answer)]
    /\ UNCHANGED balanceFrame

\* func (tkn *ITknInfo) BalanceOf(addr) (uint64, error): an error without a
\* client.
InfoBalanceOf ==
    /\ proc = "running"
    /\ bcall = NoCall
    /\ \E connected \in BOOLEAN, answer \in CallContractAnswers :
          bcall' = [fn |-> "ITknInfo.BalanceOf", at |-> "done",
                    answer |-> IF connected THEN answer ELSE [err |-> TRUE, word |-> <<>>],
                    returned |-> IF connected THEN getERC20Balance(answer)
                                 ELSE [value |-> <<>>, err |-> TRUE]]
    /\ UNCHANGED proc
    /\ UNCHANGED balanceFrame

\* func (tkn *ITknInfo) GetDecimals() *uint8
InfoGetDecimals ==
    /\ proc = "running"
    /\ bcall = NoCall
    /\ \E connected \in BOOLEAN, answer \in CallContractAnswers :
          IF ~connected
            THEN /\ proc' = "exited"
                 /\ bcall' = [fn |-> "ITknInfo.GetDecimals", at |-> "panic"]
            ELSE /\ proc' = proc
                 /\ bcall' = [fn |-> "ITknInfo.GetDecimals", at |-> "done", answer |-> answer,
                              returned |-> getDecimals(answer)]
    /\ UNCHANGED balanceFrame

\* The caller takes the result; queries are made one at a time.
BalanceTaken ==
    /\ proc = "running"
    /\ bcall # NoCall
    /\ bcall' = NoCall
    /\ UNCHANGED proc
    /\ UNCHANGED balanceFrame

BalanceNext ==
    \/ StoreBalanceOf
    \/ InfoBalanceOf
    \/ InfoGetDecimals
    \/ BalanceTaken

BalanceInit == proc = "running" /\ DecodeInit /\ MergeInit /\ DetectIdle /\ TokenIdle /\ FormatIdle /\ CacheIdle /\ IndexIdle /\ CtxIdle /\ BalanceIdle

SpecBalance == BalanceInit /\ [][BalanceNext]_vars

-----------------------------------------------------------------------------
(* Claims about balances and decimals *)

\* The contract answered the query that has just returned.
Answered == bcall # NoCall /\ bcall.at = "done" /\ ~bcall.answer.err

\* C29: BalanceOf returns the very balance the contract returned, for every
\* uint256 balance, also from 2^64 on; getDecimals returns the very value the
\* contract returned, also from 256 on.
C29_BalanceAndDecimalsExact ==
    Answered =>
        /\ bcall.fn \in {"ITknStore.BalanceOf", "ITknInfo.BalanceOf"} =>
                (~bcall.returned.err /\ bcall.returned.value = bcall.answer.word)
        /\ bcall.fn = "ITknInfo.GetDecimals" => bcall.returned = <<bcall.answer.word>>

\* Balances below 2^64 and decimals below 256 are returned as they are.
SmallValuesExact ==
    Answered =>
        /\ (bcall.fn \in {"ITknStore.BalanceOf", "ITknInfo.BalanceOf"}
                /\ Len(bcall.answer.word) <= Uint64Limbs) =>
                bcall.returned.value = bcall.answer.word
        /\ (bcall.fn = "ITknInfo.GetDecimals" /\ Len(bcall.answer.word) <= 1
                /\ \A i \in 1..Len(bcall.answer.word) : bcall.answer.word[i] < Uint8Base) =>
                bcall.returned = <<bcall.answer.word>>

\* The contract returned 2^64 and BalanceOf returned 0.
BalanceWrapped ==
    /\ Answered
    /\ bcall.fn = "ITknStore.BalanceOf"
    /\ bcall.answer.word = <<0, 0, 0, 0, 1>>
    /\ bcall.returned = [value |-> <<>>, err |-> FALSE]

-----------------------------------------------------------------------------
(* DetectBytecodes and the caller's slice *)

\* C30: after DetectBytecodes has returned, the caller's slice holds the
\* fragments it held at the call, in the same order.
C30_DetectLeavesItsInputs == Detected => signatures = passed

\* The slice is left holding the fragments it held, ordered by length.
SliceLeftSorted == Detected => signatures \in SortedOrders(passed)

\* The bytecode the caller passed is not written by any step of the call.
BytecodeKept == [][(dpc \in {"sort", "loop"}) => (bytecode' = bytecode)]_vars

\* A longer fragment was passed before a shorter one and the call swapped them.
SliceReordered ==
    /\ Detected
    /\ Len(passed) = 2
    /\ Len(passed[2]) < Len(passed[1])
    /\ signatures = <<passed[2], passed[1]>>

=============================================================================
